---- MODULE Spec2Model ----
(***************************************************************************)
(* A model of jsonfix: the normalization pipeline of loads_relaxed         *)
(* (src/src/jsonfix/parser.py), its normalizers                            *)
(* (src/src/jsonfix/normalizers.py, parser.py) and the repair records      *)
(* (src/src/jsonfix/repairs.py).                                           *)
(*                                                                         *)
(* A text is a sequence of characters; a character is a one-character      *)
(* string, or, for a code point TLA+ strings cannot hold, its name         *)
(* ("U201C" is U+201C).  Offsets into a text are 0-indexed as in the       *)
(* source: At(t, i) is t[i].                                               *)
(***************************************************************************)
EXTENDS Naturals, Integers, Sequences, FiniteSets, TLC

\* ------------------------------------------------------------------------
\* Characters and the character classes the source tests
\* ------------------------------------------------------------------------

Lower == {"a","b","c","d","e","f","g","h","i","j","k","l","m",
          "n","o","p","q","r","s","t","u","v","w","x","y","z"}

Upper == {"A","B","C","D","E","F","G","H","I","J","K","L","M",
          "N","O","P","Q","R","S","T","U","V","W","X","Y","Z"}

Digits == {"0","1","2","3","4","5","6","7","8","9"}

\* str.isalpha, str.isdigit, str.isalnum on the characters of the model
isalpha(c) == c \in Lower \cup Upper

isdigit(c) == c \in Digits

isalnum(c) == isalpha(c) \/ isdigit(c)

\* the literal " \t\n\r" the scans test membership in
WS == {" ", "\t", "\n", "\r"}

\* str.strip() and the regex class \s: the characters with str.isspace()
PySpace == {" ", "\t", "\n", "\r", "\f", "U000B", "U001C", "U001D", "U001E", "U001F"}

\* ord(char) < 0x20
Control == {"\t", "\n", "\r", "\f", "U0000", "U0001", "U0008", "U000B",
            "U001C", "U001D", "U001E", "U001F"}

HexDigits == Digits \cup {"a","b","c","d","e","f","A","B","C","D","E","F"}

\* ------------------------------------------------------------------------
\* Python's str operations, on texts
\* ------------------------------------------------------------------------

At(t, i) == t[i + 1]

Min(a, b) == IF a < b THEN a ELSE b

Max(a, b) == IF a > b THEN a ELSE b

\* t[a:b] for 0 <= a
Slice(t, a, b) == SubSeq(t, a + 1, Min(b, Len(t)))

\* t[a:]
From(t, a) == SubSeq(t, a + 1, Len(t))

\* t[i:].startswith(p)
StartsWithAt(t, i, p) ==
    /\ i + Len(p) <= Len(t)
    /\ \A k \in 1..Len(p) : t[i + k] = p[k]

startswith(t, p) == StartsWithAt(t, 0, p)

endswith(t, p) == Len(p) <= Len(t) /\ StartsWithAt(t, Len(t) - Len(p), p)

\* t.find(p, i): the least offset >= i at which p occurs, or -1
find(t, p, i) ==
    LET hits == {k \in i..(Len(t) - Len(p)) : StartsWithAt(t, k, p)}
    IN  IF hits = {} THEN -1 ELSE CHOOSE k \in hits : \A m \in hits : k <= m

\* the offset of the first character from i on that is not in set S (Len(t) if none)
SkipSet(t, i, S) ==
    LET stops == {k \in i..(Len(t) - 1) : At(t, k) \notin S}
    IN  IF stops = {} THEN Max(i, Len(t)) ELSE CHOOSE k \in stops : \A m \in stops : k <= m

\* t.strip()
strip(t) ==
    LET keep == {k \in 1..Len(t) : t[k] \notin PySpace}
    IN  IF keep = {} THEN <<>>
        ELSE SubSeq(t, CHOOSE k \in keep : \A m \in keep : k <= m,
                       CHOOSE k \in keep : \A m \in keep : k >= m)

\* t.rstrip("\n")
rstrip_nl(t) ==
    LET keep == {k \in 1..Len(t) : t[k] # "\n"}
    IN  IF keep = {} THEN <<>>
        ELSE SubSeq(t, 1, CHOOSE k \in keep : \A m \in keep : k >= m)

\* the characters of t
Range(t) == {t[k] : k \in 1..Len(t)}

\* ------------------------------------------------------------------------
\* repairs.py
\* ------------------------------------------------------------------------

\* the members of the RepairKind enum
RepairKind == {"TRAILING_COMMA", "SINGLE_LINE_COMMENT", "MULTI_LINE_COMMENT",
               "HASH_COMMENT", "SMART_QUOTE", "SINGLE_QUOTE_STRING",
               "UNQUOTED_KEY", "PYTHON_LITERAL", "UNESCAPED_NEWLINE",
               "MISSING_BRACKET", "TRUNCATION_MARKER"}

\* (line, column) of a position, both 1-indexed
_calculate_line_column(text, position) ==
    LET p      == IF position < 0 THEN 0
                  ELSE IF position > Len(text) THEN Len(text) ELSE position
        before == Slice(text, 0, p)
        nls    == {k \in 1..Len(before) : before[k] = "\n"}
        last   == IF nls = {} THEN 0 ELSE CHOOSE k \in nls : \A m \in nls : k >= m
    IN  [line |-> Cardinality(nls) + 1, column |-> (Len(before) - last) + 1]

PreviewLen == 30

\* original[:30] + "..." if len(original) > 30 else original
Preview(original) ==
    IF Len(original) > PreviewLen
    THEN Slice(original, 0, PreviewLen) \o <<".", ".", ".">>
    ELSE original

\* the message of a repair: its template and the values formatted into it
RepairMessage(kind, original, replacement) ==
    CASE kind = "TRAILING_COMMA"      -> <<"Removed trailing comma">>
      [] kind = "SINGLE_LINE_COMMENT" -> <<"Removed single-line comment", Preview(original)>>
      [] kind = "MULTI_LINE_COMMENT"  -> <<"Removed multi-line comment", Preview(original)>>
      [] kind = "HASH_COMMENT"        -> <<"Removed hash comment", Preview(original)>>
      [] kind = "SMART_QUOTE"         -> <<"Replaced smart quote", original, replacement>>
      [] kind = "SINGLE_QUOTE_STRING" -> <<"Converted single-quoted string", Preview(original)>>
      [] kind = "UNQUOTED_KEY"        -> <<"Added quotes around unquoted key", original>>
      [] kind = "PYTHON_LITERAL"      -> <<"Converted Python literal", original, replacement>>
      [] kind = "UNESCAPED_NEWLINE"   -> <<"Escaped literal newline in string">>
      [] kind = "MISSING_BRACKET"     -> <<"Added missing closing bracket", replacement>>
      [] kind = "TRUNCATION_MARKER"   -> <<"Removed truncation marker", original>>
      [] OTHER                        -> <<"Repaired", original, replacement>>

create_repair(kind, text, position, original, replacement) ==
    LET lc == _calculate_line_column(text, position)
    IN  [kind |-> kind, position |-> position, line |-> lc.line,
         column |-> lc.column, original |-> original,
         replacement |-> replacement,
         message |-> RepairMessage(kind, original, replacement)]

\* ------------------------------------------------------------------------
\* The result of a normalizer: the text it returns and the log as it left
\* it, or the exception it raised (the log keeps what was appended before).
\* ------------------------------------------------------------------------

Ok(text, log) == [text |-> text, log |-> log, err |-> "none"]

Raise(exc, log) == [text |-> <<>>, log |-> log, err |-> exc]

\* A while loop is an operator for one iteration and a recursive operator that
\* repeats it: an iteration either returns (Ok, Raise) or hands on the values
\* of the loop's variables for the next iteration.
Continue(next) == [more |-> TRUE, next |-> next]

Finished(r) == "more" \notin DOMAIN r

\* "while ...:" with the loop body iteration, from the values v of its variables
RECURSIVE While(_, _)
While(iteration(_), v) ==
    LET r == iteration(v) IN
    IF Finished(r) THEN r ELSE While(iteration, r.next)

\* "x = <value>" followed by the statements body, which read x: the value
\* is computed once, as an assignment computes it
Let(value, body(_)) == CHOOSE out \in {body(x) : x \in {value}} : TRUE

\* "repair_log.append(create_repair(kind=RepairKind.<kind>, ...))": the
\* attribute lookup RepairKind.<kind> raises AttributeError for a name that
\* is no member of the enum, before anything is appended.
HasKind(kind) == kind \in RepairKind


\* repair_log.insert(0, repair) in place of repair_log.append(repair)
Emit_at_front(log, kind, text, position, original, replacement) ==
    <<create_repair(kind, text, position, original, replacement)>> \o log

Emit(log, kind, text, position, original, replacement) ==
    Append(log, create_repair(kind, text, position, original, replacement))

\* ------------------------------------------------------------------------
\* normalizers.py: remove_markdown_fences
\* ------------------------------------------------------------------------

UpperSeq == <<"A","B","C","D","E","F","G","H","I","J","K","L","M",
              "N","O","P","Q","R","S","T","U","V","W","X","Y","Z">>

LowerSeq == <<"a","b","c","d","e","f","g","h","i","j","k","l","m",
              "n","o","p","q","r","s","t","u","v","w","x","y","z">>

\* str.lower() of one character
lower(c) ==
    IF c \in Upper THEN LowerSeq[CHOOSE k \in 1..26 : UpperSeq[k] = c] ELSE c

\* re.IGNORECASE match of the lower-case word p at offset i
StartsWithAtNoCase(t, i, p) ==
    /\ i + Len(p) <= Len(t)
    /\ \A k \in 1..Len(p) : lower(t[i + k]) = p[k]

\* three grave accents (U+0060)
Fence == <<"U0060", "U0060", "U0060">>

\* the language tags of fence_start_pattern, in the order of its alternation
FenceTags == << <<"j","s","o","n">>,
                <<"j","a","v","a","s","c","r","i","p","t">>,
                <<"j","s">> >>

\* the offset after the last "\n" in t[a:b], or -1
AfterLastNewline(t, a, b) ==
    LET nls == {k \in a..(b - 1) : At(t, k) = "\n"}
    IN  IF nls = {} THEN -1 ELSE (CHOOSE k \in nls : \A m \in nls : k >= m) + 1

\* fence_start_pattern.match(text).end(), or -1 when it does not match:
\*   ^(\s*)<fence>\s*(?:json|javascript|js)?\s*\n     (re.IGNORECASE)
FenceStartEnd(text) ==
    LET a == SkipSet(text, 0, PySpace)
    IN  IF ~StartsWithAt(text, a, Fence) THEN -1
        ELSE
          LET b == a + 3
              c == SkipSet(text, b, PySpace)
              \* with a tag at c: \s*\n must match after the tag
              tagEnd(k) ==
                  IF StartsWithAtNoCase(text, c, FenceTags[k])
                  THEN LET d == c + Len(FenceTags[k])
                       IN  AfterLastNewline(text, d, SkipSet(text, d, PySpace))
                  ELSE -1
              tagged == {k \in 1..Len(FenceTags) : tagEnd(k) # -1}
          IN  IF tagged # {}
              THEN tagEnd(CHOOSE k \in tagged : \A m \in tagged : k <= m)
              \* without a tag: the newline is one of the whitespace after <fence>
              ELSE AfterLastNewline(text, b, c)

\* fence_end_pattern.search(text, start_pos).start(), or -1:
\*   \n?\s*<fence>\s*$     (re.MULTILINE)
FenceEndStart(text, start_pos) ==
    LET closes(r) == /\ StartsWithAt(text, r, Fence)
                     /\ LET e == SkipSet(text, r + 3, PySpace)
                        IN  e = Len(text) \/ AfterLastNewline(text, r + 3, e) # -1
        rs == {r \in start_pos..(Len(text) - 3) : closes(r)}
    IN  IF rs = {} THEN -1
        ELSE LET r  == CHOOSE x \in rs : \A m \in rs : x <= m
                 qs == {q \in start_pos..r : \A k \in q..(r - 1) : At(text, k) \in PySpace}
             IN  CHOOSE q \in qs : \A m \in qs : q <= m

remove_markdown_fences(text, log) ==
    IF text = <<>> THEN Ok(text, log)
    ELSE
      LET start_pos == FenceStartEnd(text)
      IN  IF start_pos = -1 THEN Ok(text, log)
          ELSE
            LET end_start == FenceEndStart(text, start_pos)
                content   == IF end_start # -1 THEN Slice(text, start_pos, end_start)
                             ELSE From(text, start_pos)
                extracted == strip(content)
            IN  IF ~HasKind("MARKDOWN_FENCE_REMOVED") THEN Raise("AttributeError", log)
                ELSE Ok(extracted,
                        Emit(log, "MARKDOWN_FENCE_REMOVED", text, 0, text, extracted))

\* ------------------------------------------------------------------------
\* normalizers.py: extract_json_from_text
\* ------------------------------------------------------------------------

StartsWithComment(t) ==
    \/ startswith(t, <<"/", "/">>)
    \/ startswith(t, <<"#">>)
    \/ startswith(t, <<"/", "*">>)

\* the loop that finds the bracket closing the region: json_end, or -1
extract_find_end_iteration(text, i, opening, closing, bracket_count, in_string, escape_next) ==
    IF i >= Len(text) THEN [end_pos |-> -1]
    ELSE
      LET char == At(text, i) IN
      IF escape_next
      THEN Continue(<<i + 1, opening, closing, bracket_count, in_string, FALSE>>)
      ELSE IF char = "\\" /\ in_string
      THEN Continue(<<i + 1, opening, closing, bracket_count, in_string, TRUE>>)
      ELSE IF char = "\""
      THEN Continue(<<i + 1, opening, closing, bracket_count, ~in_string, FALSE>>)
      ELSE IF in_string
      THEN Continue(<<i + 1, opening, closing, bracket_count, in_string, FALSE>>)
      ELSE IF char = opening
      THEN Continue(<<i + 1, opening, closing, bracket_count + 1, in_string, FALSE>>)
      ELSE IF char = closing
      THEN IF bracket_count - 1 = 0 THEN [end_pos |-> i + 1]
           ELSE Continue(<<i + 1, opening, closing, bracket_count - 1, in_string, FALSE>>)
      ELSE Continue(<<i + 1, opening, closing, bracket_count, in_string, FALSE>>)

extract_json_from_text(original_text, log) ==
    IF original_text = <<>> THEN Ok(original_text, log)
    ELSE
      LET text == strip(original_text) IN
      IF StartsWithComment(text) THEN Ok(text, log)
      ELSE
        LET json_start == SkipSet(text, 0, {c \in Range(text) : c \notin {"{", "["}}) IN
        IF json_start >= Len(text) THEN Ok(text, log)
        ELSE
          LET opening  == At(text, json_start)
              closing  == IF opening = "{" THEN "}" ELSE "]"
              json_end ==
          While(LAMBDA v : extract_find_end_iteration(text, v[1], v[2], v[3], v[4], v[5], v[6]),
                <<json_start, opening, closing, 0, FALSE, FALSE>>).end_pos
              postamble == IF json_end = -1 THEN <<>> ELSE strip(From(text, json_end))
              keep_post == json_end # -1 /\ StartsWithComment(postamble)
              extracted == IF json_end = -1 \/ keep_post THEN From(text, json_start)
                           ELSE Slice(text, json_start, json_end)
              has_postamble == json_end # -1 /\ ~keep_post /\ postamble # <<>>
              has_preamble  == json_start > 0
              preamble == IF json_start > 0 THEN Slice(text, 0, json_start) ELSE <<>>
          IN  IF has_preamble \/ has_postamble
              THEN IF ~HasKind("JSON_EXTRACTED") THEN Raise("AttributeError", log)
                   ELSE Ok(extracted,
                           Emit(log, "JSON_EXTRACTED", original_text, 0, preamble, <<>>))
              ELSE Ok(extracted, log)

\* ------------------------------------------------------------------------
\* normalizers.py: normalize_quotes
\* ------------------------------------------------------------------------

\* U+201C U+201D U+201E U+201F U+00AB U+00BB U+2033 U+301D U+301E
SMART_DOUBLE_QUOTES == {"U201C", "U201D", "U201E", "U201F", "U00AB", "U00BB",
                        "U2033", "U301D", "U301E"}

\* U+2018 U+2019 U+201A U+201B U+2039 U+203A U+2032 U+0060 U+00B4
SMART_SINGLE_QUOTES == {"U2018", "U2019", "U201A", "U201B", "U2039", "U203A",
                        "U2032", "U0060", "U00B4"}

ALL_QUOTE_MAPPINGS ==
    [c \in SMART_DOUBLE_QUOTES \cup SMART_SINGLE_QUOTES |->
        IF c \in SMART_DOUBLE_QUOTES THEN "\"" ELSE "'"]

normalize_quotes_iteration(text, i, result_chars, log) ==
    IF i >= Len(text) THEN Ok(result_chars, log)
    ELSE
      LET char == At(text, i) IN
      IF char \in DOMAIN ALL_QUOTE_MAPPINGS
      THEN LET replacement == ALL_QUOTE_MAPPINGS[char] IN
           IF ~HasKind("SMART_QUOTE") THEN Raise("AttributeError", log)
           ELSE Continue(<<i + 1, Append(result_chars, replacement),
                    Emit(log, "SMART_QUOTE", text, i, <<char>>, <<replacement>>)>>)
      ELSE Continue(<<i + 1, Append(result_chars, char), log>>)

normalize_quotes(text, log) ==
    IF text = <<>> THEN Ok(text, log) ELSE
        While(LAMBDA v : normalize_quotes_iteration(text, v[1], v[2], v[3]),
              <<0, <<>>, log>>)

\* ------------------------------------------------------------------------
\* normalizers.py: convert_single_quote_strings
\* ------------------------------------------------------------------------

\* str.replace(pat, rep): the occurrences of pat, left to right, not overlapping
RECURSIVE replace(_, _, _)
replace(t, pat, rep) ==
    IF Len(t) < Len(pat) THEN t
    ELSE IF StartsWithAt(t, 0, pat) THEN rep \o replace(From(t, Len(pat)), pat, rep)
    ELSE <<t[1]>> \o replace(From(t, 1), pat, rep)

\* the inner while loop: the offset j of the closing ' and the content read,
\* or found = FALSE when the text ends first
single_quote_scan_iteration(text, j, string_content, escape_in_single) ==
    IF j >= Len(text) THEN [found |-> FALSE, j |-> j, content |-> string_content]
    ELSE
      LET c == At(text, j) IN
      IF escape_in_single
      THEN Continue(<<j + 1,
               IF c = "'" THEN Append(string_content, "'")
               ELSE IF c = "\"" THEN string_content \o <<"\\", "\"">>
               ELSE string_content \o <<"\\", c>>,
               FALSE>>)
      ELSE IF c = "\\" THEN Continue(<<j + 1, string_content, TRUE>>)
      ELSE IF c = "'" THEN [found |-> TRUE, j |-> j, content |-> string_content]
      ELSE Continue(<<j + 1, Append(string_content, c), FALSE>>)

single_quote_iteration(text, i, in_double_string, escape_next, result, log) ==
    IF i >= Len(text) THEN Ok(result, log)
    ELSE
      LET char == At(text, i) IN
      IF escape_next
      THEN Continue(<<i + 1, in_double_string, FALSE, Append(result, char), log>>)
      ELSE IF char = "\\"
      THEN Continue(<<i + 1, in_double_string, TRUE, Append(result, char), log>>)
      ELSE IF char = "\""
      THEN Continue(<<i + 1, ~in_double_string, FALSE, Append(result, char), log>>)
      ELSE IF char = "'" /\ ~in_double_string
      THEN LET sc == While(LAMBDA v : single_quote_scan_iteration(text, v[1], v[2], v[3]),
                           <<i + 1, <<>>, FALSE>>) IN
           IF sc.found
           THEN LET original    == Slice(text, i, sc.j + 1)
                    escaped     == replace(sc.content, <<"\"">>, <<"\\", "\"">>)
                    converted   == replace(escaped, <<"\\", "\\", "\"">>, <<"\\", "\"">>)
                    replacement == <<"\"">> \o converted \o <<"\"">>
                IN  IF ~HasKind("SINGLE_QUOTE_STRING") THEN Raise("AttributeError", log)
                    ELSE Continue(<<sc.j + 1, in_double_string, FALSE,
                             result \o replacement,
                             Emit(log, "SINGLE_QUOTE_STRING", text, i, original, replacement)>>)
           ELSE Continue(<<i + 1, in_double_string, FALSE, Append(result, char), log>>)
      ELSE Continue(<<i + 1, in_double_string, FALSE, Append(result, char), log>>)

convert_single_quote_strings(text, log) ==
    IF text = <<>> THEN Ok(text, log)
    ELSE While(LAMBDA v : single_quote_iteration(text, v[1], v[2], v[3], v[4], v[5]),
               <<0, FALSE, FALSE, <<>>, log>>)

\* ------------------------------------------------------------------------
\* normalizers.py: quote_unquoted_keys
\* ------------------------------------------------------------------------

IdentStart(c) == isalpha(c) \/ c \in {"_", "$"}

IdentPart(c) == isalnum(c) \/ c \in {"_", "$"}

unquoted_keys_iteration(text, i, in_string, escape_next, result, log) ==
    IF i >= Len(text) THEN Ok(result, log)
    ELSE
      LET char == At(text, i) IN
      IF escape_next
      THEN Continue(<<i + 1, in_string, FALSE, Append(result, char), log>>)
      ELSE IF char = "\\" /\ in_string
      THEN Continue(<<i + 1, in_string, TRUE, Append(result, char), log>>)
      ELSE IF char = "\""
      THEN Continue(<<i + 1, ~in_string, FALSE, Append(result, char), log>>)
      ELSE IF ~in_string /\ char \in {"{", ","}
      THEN LET i2 == SkipSet(text, i + 1, WS)
               r2 == Append(result, char) \o Slice(text, i + 1, i2)
           IN  IF i2 >= Len(text) THEN Ok(r2, log)
               ELSE IF IdentStart(At(text, i2))
               THEN LET j == SkipSet(text, i2, {c \in Range(text) : IdentPart(c)})
                        k == SkipSet(text, j, WS)
                    IN  IF k < Len(text) /\ At(text, k) = ":"
                        THEN LET key == Slice(text, i2, j) IN
                             IF ~HasKind("UNQUOTED_KEY") THEN Raise("AttributeError", log)
                             ELSE Continue(<<k, in_string, FALSE,
                                      r2 \o <<"\"">> \o key \o <<"\"">> \o Slice(text, j, k),
                                      Emit(log, "UNQUOTED_KEY", text, i2, key,
                                           <<"\"">> \o key \o <<"\"">>)>>)
                        ELSE Continue(<<i2, in_string, FALSE, r2, log>>)
               ELSE Continue(<<i2, in_string, FALSE, r2, log>>)
      ELSE Continue(<<i + 1, in_string, FALSE, Append(result, char), log>>)

quote_unquoted_keys(text, log) ==
    IF text = <<>> THEN Ok(text, log)
    ELSE While(LAMBDA v : unquoted_keys_iteration(text, v[1], v[2], v[3], v[4], v[5]),
               <<0, FALSE, FALSE, <<>>, log>>)

\* ------------------------------------------------------------------------
\* normalizers.py: convert_python_literals
\* ------------------------------------------------------------------------

\* PYTHON_LITERALS, in the order the dict is iterated
PYTHON_LITERALS == << <<"True",  <<"T","r","u","e">>,     <<"t","r","u","e">> >>,
                      <<"False", <<"F","a","l","s","e">>, <<"f","a","l","s","e">> >>,
                      <<"None",  <<"N","o","n","e">>,     <<"n","u","l","l">> >> >>

\* the literals that match at offset i with both word boundaries
PythonLiteralAt(text, i) ==
    {n \in 1..Len(PYTHON_LITERALS) :
        LET py == PYTHON_LITERALS[n][2]
            after_pos == i + Len(py)
        IN  /\ StartsWithAt(text, i, py)
            /\ (i = 0 \/ ~isalnum(At(text, i - 1)))
            /\ (after_pos >= Len(text) \/ ~isalnum(At(text, after_pos)))}

python_literals_iteration(text, i, in_string, escape_next, result, log) ==
    IF i >= Len(text) THEN Ok(result, log)
    ELSE
      LET char == At(text, i) IN
      IF escape_next
      THEN Continue(<<i + 1, in_string, FALSE, Append(result, char), log>>)
      ELSE IF char = "\\" /\ in_string
      THEN Continue(<<i + 1, in_string, TRUE, Append(result, char), log>>)
      ELSE IF char = "\""
      THEN Continue(<<i + 1, ~in_string, FALSE, Append(result, char), log>>)
      ELSE IF ~in_string /\ PythonLiteralAt(text, i) # {}
      THEN LET n    == CHOOSE x \in PythonLiteralAt(text, i) :
                           \A m \in PythonLiteralAt(text, i) : x <= m
               py   == PYTHON_LITERALS[n][2]
               js   == PYTHON_LITERALS[n][3]
           IN  IF ~HasKind("PYTHON_LITERAL") THEN Raise("AttributeError", log)
               ELSE Continue(<<i + Len(py), in_string, FALSE, result \o js,
                        Emit(log, "PYTHON_LITERAL", text, i, py, js)>>)
      ELSE Continue(<<i + 1, in_string, FALSE, Append(result, char), log>>)

convert_python_literals(text, log) ==
    IF text = <<>> THEN Ok(text, log)
    ELSE While(LAMBDA v : python_literals_iteration(text, v[1], v[2], v[3], v[4], v[5]),
               <<0, FALSE, FALSE, <<>>, log>>)

\* ------------------------------------------------------------------------
\* normalizers.py: fix_unescaped_backslash
\* ------------------------------------------------------------------------

\* the drive-letter test: the text after the last '"' of result starts with
\* a letter and ':'
is_windows_path(result) ==
    LET quotes == {k \in 1..Len(result) : result[k] = "\""}
    IN  /\ quotes # {}
        /\ LET string_so_far == From(result, CHOOSE k \in quotes : \A m \in quotes : k >= m)
           IN  /\ Len(string_so_far) >= 2
               /\ isalpha(string_so_far[1])
               /\ string_so_far[2] = ":"

\* a backslash at offset i starts \uXXXX with four hexadecimal digits
ValidUnicodeEscape(text, i) ==
    /\ i + 5 < Len(text)
    /\ \A k \in (i + 2)..(i + 5) : At(text, k) \in HexDigits

backslash_iteration(text, i, in_string, escape_next, result, log) ==
    IF i >= Len(text) THEN Ok(result, log)
    ELSE
      LET char == At(text, i)
          \* result.append(char); escape_next = True
          keep == Continue(<<i + 1, in_string, TRUE, Append(result, char), log>>)
          \* log unescaped_backslash; result.append('\\\\')
          double ==
              IF ~HasKind("UNESCAPED_BACKSLASH") THEN Raise("AttributeError", log)
              ELSE Continue(<<i + 1, in_string, escape_next,
                       result \o <<"\\", "\\">>,
                       Emit(log, "UNESCAPED_BACKSLASH", text, i, <<"\\">>, <<"\\", "\\">>)>>)
      IN
      IF char = "\"" /\ ~escape_next
      THEN Continue(<<i + 1, ~in_string, escape_next, Append(result, char), log>>)
      ELSE IF in_string /\ escape_next
      THEN Continue(<<i + 1, in_string, FALSE, Append(result, char), log>>)
      ELSE IF in_string /\ char = "\\"
      THEN IF i + 1 < Len(text)
           THEN LET next_char == At(text, i + 1) IN
                IF next_char = "\\" THEN keep
                ELSE IF next_char = "\"" THEN keep
                ELSE IF next_char \in {"b", "f", "n", "r", "t", "/"}
                THEN IF is_windows_path(result) THEN double ELSE keep
                ELSE IF next_char = "u" /\ ValidUnicodeEscape(text, i) THEN keep
                ELSE double
           ELSE double
      ELSE Continue(<<i + 1, in_string, escape_next, Append(result, char), log>>)

fix_unescaped_backslash(text, log) ==
    IF text = <<>> THEN Ok(text, log)
    ELSE While(LAMBDA v : backslash_iteration(text, v[1], v[2], v[3], v[4], v[5]),
               <<0, FALSE, FALSE, <<>>, log>>)

\* ------------------------------------------------------------------------
\* normalizers.py: escape_newlines_in_strings
\* ------------------------------------------------------------------------

newlines_iteration(text, i, in_string, escape_next, result, log) ==
    IF i >= Len(text) THEN Ok(result, log)
    ELSE
      LET char == At(text, i) IN
      IF escape_next
      THEN Continue(<<i + 1, in_string, FALSE, Append(result, char), log>>)
      ELSE IF char = "\\" /\ in_string
      THEN Continue(<<i + 1, in_string, TRUE, Append(result, char), log>>)
      ELSE IF char = "\""
      THEN Continue(<<i + 1, ~in_string, FALSE, Append(result, char), log>>)
      ELSE IF in_string /\ char \in {"\n", "\r"}
      THEN LET esc == IF char = "\n" THEN <<"\\", "n">> ELSE <<"\\", "r">> IN
           IF ~HasKind("UNESCAPED_NEWLINE") THEN Raise("AttributeError", log)
           ELSE Continue(<<i + 1, in_string, FALSE, result \o esc,
                    Emit(log, "UNESCAPED_NEWLINE", text, i, esc, esc)>>)
      ELSE Continue(<<i + 1, in_string, FALSE, Append(result, char), log>>)

escape_newlines_in_strings(text, log) ==
    IF text = <<>> THEN Ok(text, log)
    ELSE While(LAMBDA v : newlines_iteration(text, v[1], v[2], v[3], v[4], v[5]),
               <<0, FALSE, FALSE, <<>>, log>>)

\* ------------------------------------------------------------------------
\* normalizers.py: escape_control_characters
\* ------------------------------------------------------------------------

\* CONTROL_CHAR_ESCAPES: tab, carriage return, form feed, backspace
CONTROL_CHAR_ESCAPES ==
    [c \in {"\t", "\r", "\f", "U0008"} |->
        CASE c = "\t" -> <<"\\", "t">>
          [] c = "\r" -> <<"\\", "r">>
          [] c = "\f" -> <<"\\", "f">>
          [] c = "U0008" -> <<"\\", "b">>]

\* f'\\u{ord(char):04x}' for the other characters below 0x20
UnicodeEscape(c) ==
    <<"\\", "u">> \o
    (CASE c = "U0000" -> <<"0", "0", "0", "0">>
       [] c = "U0001" -> <<"0", "0", "0", "1">>
       [] c = "U000B" -> <<"0", "0", "0", "b">>
       [] c = "U001C" -> <<"0", "0", "1", "c">>
       [] c = "U001D" -> <<"0", "0", "1", "d">>
       [] c = "U001E" -> <<"0", "0", "1", "e">>
       [] c = "U001F" -> <<"0", "0", "1", "f">>)

control_iteration(text, i, in_string, escape_next, result, log) ==
    IF i >= Len(text) THEN Ok(result, log)
    ELSE
      LET char == At(text, i)
          escape(escape_seq) ==
              IF ~HasKind("CONTROL_CHARACTER") THEN Raise("AttributeError", log)
              ELSE Continue(<<i + 1, in_string, FALSE, result \o escape_seq,
                       Emit(log, "CONTROL_CHARACTER", text, i, <<char>>, escape_seq)>>)
      IN
      IF escape_next
      THEN Continue(<<i + 1, in_string, FALSE, Append(result, char), log>>)
      ELSE IF char = "\\" /\ in_string
      THEN Continue(<<i + 1, in_string, TRUE, Append(result, char), log>>)
      ELSE IF char = "\""
      THEN Continue(<<i + 1, ~in_string, FALSE, Append(result, char), log>>)
      ELSE IF in_string /\ char \in DOMAIN CONTROL_CHAR_ESCAPES
      THEN escape(CONTROL_CHAR_ESCAPES[char])
      ELSE IF in_string /\ char \in Control /\ char \notin {"\n", "\r"}
      THEN escape(UnicodeEscape(char))
      ELSE Continue(<<i + 1, in_string, FALSE, Append(result, char), log>>)

escape_control_characters(text, log) ==
    IF text = <<>> THEN Ok(text, log)
    ELSE While(LAMBDA v : control_iteration(text, v[1], v[2], v[3], v[4], v[5]),
               <<0, FALSE, FALSE, <<>>, log>>)

\* ------------------------------------------------------------------------
\* normalizers.py: remove_ellipsis_markers
\* ------------------------------------------------------------------------

\* the offset in result of the ',' that precedes the marker (whitespace
\* between them allowed), or -1
CommaBefore(result) ==
    LET sig == {k \in 1..Len(result) : result[k] \notin WS}
    IN  IF sig = {} THEN -1
        ELSE LET j == CHOOSE k \in sig : \A m \in sig : k >= m
             IN  IF result[j] = "," THEN j - 1 ELSE -1

Dots == <<".", ".", ".">>

ellipsis_iteration(text, i, in_string, escape_next, result, log) ==
    IF i >= Len(text) THEN Ok(result, log)
    ELSE
      LET char == At(text, i)
          \* the marker is the n characters at i
          remove(marker) ==
              LET j       == CommaBefore(result)
                  kept    == IF j >= 0 THEN Slice(result, 0, j) ELSE result
                  removed == IF j >= 0 THEN <<",", " ">> \o marker ELSE marker
              IN  IF ~HasKind("TRUNCATION_MARKER") THEN Raise("AttributeError", log)
                  ELSE Continue(<<SkipSet(text, i + Len(marker), WS), in_string,
                           FALSE, kept,
                           Emit(log, "TRUNCATION_MARKER", text, i, removed, <<>>)>>)
      IN
      IF escape_next
      THEN Continue(<<i + 1, in_string, FALSE, Append(result, char), log>>)
      ELSE IF char = "\\" /\ in_string
      THEN Continue(<<i + 1, in_string, TRUE, Append(result, char), log>>)
      ELSE IF char = "\""
      THEN Continue(<<i + 1, ~in_string, FALSE, Append(result, char), log>>)
      ELSE IF ~in_string /\ StartsWithAt(text, i, Dots) THEN remove(Dots)
      ELSE IF ~in_string /\ char = "U2026" THEN remove(<<"U2026">>)
      ELSE Continue(<<i + 1, in_string, FALSE, Append(result, char), log>>)

remove_ellipsis_markers(text, log) ==
    IF text = <<>> THEN Ok(text, log)
    ELSE While(LAMBDA v : ellipsis_iteration(text, v[1], v[2], v[3], v[4], v[5]),
               <<0, FALSE, FALSE, <<>>, log>>)

\* ------------------------------------------------------------------------
\* parser.py: _strip_comments
\* ------------------------------------------------------------------------

\* the offset after the line that holds offset i: text.find("\n", i) + 1, or len(text)
LineEnd(text, i) ==
    LET e == find(text, <<"\n">>, i) IN IF e = -1 THEN Len(text) ELSE e + 1

strip_comments_iteration(text, i, in_string, escape_next, result, log) ==
    IF i >= Len(text) THEN Ok(result, log)
    ELSE
      LET char == At(text, i)
          line_comment(kind) ==
              LET end == LineEnd(text, i) IN
              IF ~HasKind(kind) THEN Raise("AttributeError", log)
              ELSE Continue(<<end, in_string, FALSE, result,
                       Emit(log, kind, text, i, rstrip_nl(Slice(text, i, end)), <<>>)>>)
      IN
      IF escape_next
      THEN Continue(<<i + 1, in_string, FALSE, Append(result, char), log>>)
      ELSE IF char = "\"" /\ ~in_string
      THEN Continue(<<i + 1, TRUE, FALSE, Append(result, char), log>>)
      ELSE IF char = "\"" /\ in_string
      THEN Continue(<<i + 1, FALSE, FALSE, Append(result, char), log>>)
      ELSE IF char = "\\" /\ in_string
      THEN Continue(<<i + 1, in_string, TRUE, Append(result, char), log>>)
      ELSE IF ~in_string /\ StartsWithAt(text, i, <<"/", "/">>)
      THEN IF i > 0 /\ At(text, i - 1) = ":"
           \* a URL protocol, not a comment
           THEN Continue(<<i + 1, in_string, FALSE, Append(result, char), log>>)
           ELSE line_comment("SINGLE_LINE_COMMENT")
      ELSE IF ~in_string /\ char = "#"
      THEN line_comment("HASH_COMMENT")
      ELSE IF ~in_string /\ StartsWithAt(text, i, <<"/", "*">>)
      THEN LET close == find(text, <<"*", "/">>, i + 2) IN
           IF close = -1 THEN Raise("RelaxedJSONError", log)
           ELSE IF ~HasKind("MULTI_LINE_COMMENT") THEN Raise("AttributeError", log)
           ELSE Continue(<<close + 2, in_string, FALSE, Append(result, " "),
                    Emit(log, "MULTI_LINE_COMMENT", text, i,
                         Slice(text, i, close + 2), <<>>)>>)
      ELSE Continue(<<i + 1, in_string, FALSE, Append(result, char), log>>)

_strip_comments(text, log) ==
    While(LAMBDA v : strip_comments_iteration(text, v[1], v[2], v[3], v[4], v[5]),
          <<0, FALSE, FALSE, <<>>, log>>)

\* ------------------------------------------------------------------------
\* parser.py: _remove_trailing_commas
\* ------------------------------------------------------------------------

\* the repairs positioned by the offset of the comma in the output
trailing_commas_output_offsets(text, i, in_string, escape_next, result, log) ==
    IF i >= Len(text) THEN Ok(result, log)
    ELSE
      LET char == At(text, i) IN
      IF escape_next
      THEN Continue(<<i + 1, in_string, FALSE, Append(result, char), log>>)
      ELSE IF char = "\""
      THEN Continue(<<i + 1, ~in_string, FALSE, Append(result, char), log>>)
      ELSE IF char = "\\" /\ in_string
      THEN Continue(<<i + 1, in_string, TRUE, Append(result, char), log>>)
      ELSE
        LET j == SkipSet(text, i + 1, WS) IN
        IF ~in_string /\ char = "," /\ j < Len(text) /\ At(text, j) \in {"]", "}"}
        THEN Continue(<<i + 1, in_string, FALSE, result,
                 Emit(log, "TRAILING_COMMA", text, Len(result), <<",">>, <<>>)>>)
        ELSE Continue(<<i + 1, in_string, FALSE, Append(result, char), log>>)

trailing_commas_iteration(text, i, in_string, escape_next, result, log) ==
    IF i >= Len(text) THEN Ok(result, log)
    ELSE
      LET char == At(text, i) IN
      IF escape_next
      THEN Continue(<<i + 1, in_string, FALSE, Append(result, char), log>>)
      ELSE IF char = "\"" /\ ~in_string
      THEN Continue(<<i + 1, TRUE, FALSE, Append(result, char), log>>)
      ELSE IF char = "\"" /\ in_string
      THEN Continue(<<i + 1, FALSE, FALSE, Append(result, char), log>>)
      ELSE IF char = "\\" /\ in_string
      THEN Continue(<<i + 1, in_string, TRUE, Append(result, char), log>>)
      ELSE
        LET j == SkipSet(text, i + 1, WS) IN
        IF ~in_string /\ char = "," /\ j < Len(text) /\ At(text, j) \in {"]", "}"}
        THEN \* a trailing comma: skip it
             IF ~HasKind("TRAILING_COMMA") THEN Raise("AttributeError", log)
             ELSE Continue(<<i + 1, in_string, FALSE, result,
                      Emit(log, "TRAILING_COMMA", text, i, <<",">>, <<>>)>>)
        ELSE Continue(<<i + 1, in_string, FALSE, Append(result, char), log>>)

_remove_trailing_commas(text, log) ==
    While(LAMBDA v : trailing_commas_iteration(text, v[1], v[2], v[3], v[4], v[5]),
          <<0, FALSE, FALSE, <<>>, log>>)

\* ------------------------------------------------------------------------
\* parser.py: _auto_close_brackets
\* ------------------------------------------------------------------------

\* the stack of brackets left open at the end of the text
bracket_stack_iteration(text, i, in_string, escape_next, bracket_stack) ==
    IF i >= Len(text) THEN [bracket_stack |-> bracket_stack]
    ELSE
      LET char == At(text, i)
          top  == IF bracket_stack = <<>> THEN "" ELSE bracket_stack[Len(bracket_stack)]
          pop  == SubSeq(bracket_stack, 1, Len(bracket_stack) - 1)
      IN
      IF escape_next
      THEN Continue(<<i + 1, in_string, FALSE, bracket_stack>>)
      ELSE IF char = "\\" /\ in_string
      THEN Continue(<<i + 1, in_string, TRUE, bracket_stack>>)
      ELSE IF char = "\""
      THEN Continue(<<i + 1, ~in_string, FALSE, bracket_stack>>)
      ELSE IF in_string
      THEN Continue(<<i + 1, in_string, FALSE, bracket_stack>>)
      ELSE IF char \in {"{", "["}
      THEN Continue(<<i + 1, in_string, FALSE, Append(bracket_stack, char)>>)
      ELSE IF (char = "}" /\ top = "{") \/ (char = "]" /\ top = "[")
      THEN Continue(<<i + 1, in_string, FALSE, pop>>)
      ELSE Continue(<<i + 1, in_string, FALSE, bracket_stack>>)

\* the closing brackets appended outermost first
close_brackets_outermost_first(text, bracket_stack, closing_brackets, log) ==
    IF bracket_stack = <<>> THEN Ok(text \o closing_brackets, log)
    ELSE
      LET bracket == bracket_stack[1]
          closing == IF bracket = "{" THEN "}" ELSE "]"
      IN
      IF ~HasKind("MISSING_BRACKET") THEN Raise("AttributeError", log)
      ELSE Continue(<<Tail(bracket_stack),
               Append(closing_brackets, closing),
               Emit(log, "MISSING_BRACKET", text, Len(text), <<>>, <<closing>>)>>)

\* one closing bracket and one repair per open bracket, innermost first
close_brackets_iteration(text, bracket_stack, closing_brackets, log) ==
    IF bracket_stack = <<>> THEN Ok(text \o closing_brackets, log)
    ELSE
      LET bracket == bracket_stack[Len(bracket_stack)]
          closing == IF bracket = "{" THEN "}" ELSE "]"
      IN
      IF ~HasKind("MISSING_BRACKET") THEN Raise("AttributeError", log)
      ELSE Continue(<<SubSeq(bracket_stack, 1, Len(bracket_stack) - 1),
               Append(closing_brackets, closing),
               Emit(log, "MISSING_BRACKET", text, Len(text), <<>>, <<closing>>)>>)

_auto_close_brackets(text, log) ==
    IF text = <<>> THEN Ok(text, log)
    ELSE LET bracket_stack ==
        While(LAMBDA v : bracket_stack_iteration(text, v[1], v[2], v[3], v[4]),
              <<0, FALSE, FALSE, <<>>>>).bracket_stack IN
         IF bracket_stack = <<>> THEN Ok(text, log)
         ELSE While(LAMBDA v : close_brackets_iteration(text, v[1], v[2], v[3]),
                    <<bracket_stack, <<>>, log>>)

\* ------------------------------------------------------------------------
\* normalizers.py: remove_double_commas
\* ------------------------------------------------------------------------

\* the last character of result outside " \t\n\r" ("" if there is none)
last_structural(result) ==
    LET sig == {k \in 1..Len(result) : result[k] \notin WS}
    IN  IF sig = {} THEN "" ELSE result[CHOOSE k \in sig : \A m \in sig : k >= m]

double_commas_iteration(text, i, in_string, escape_next, result, log) ==
    IF i >= Len(text) THEN Ok(result, log)
    ELSE
      LET char == At(text, i) IN
      IF escape_next
      THEN Continue(<<i + 1, in_string, FALSE, Append(result, char), log>>)
      ELSE IF char = "\\" /\ in_string
      THEN Continue(<<i + 1, in_string, TRUE, Append(result, char), log>>)
      ELSE IF char = "\""
      THEN Continue(<<i + 1, ~in_string, FALSE, Append(result, char), log>>)
      ELSE IF char = "," /\ ~in_string /\ last_structural(result) \in {"{", "[", ","}
      THEN \* a leading comma or a double comma: skip it
           IF ~HasKind("DOUBLE_COMMA") THEN Raise("AttributeError", log)
           ELSE Continue(<<i + 1, in_string, FALSE, result,
                    Emit(log, "DOUBLE_COMMA", text, i, <<",">>, <<>>)>>)
      ELSE Continue(<<i + 1, in_string, FALSE, Append(result, char), log>>)

remove_double_commas(text, log) ==
    IF text = <<>> THEN Ok(text, log)
    ELSE While(LAMBDA v : double_commas_iteration(text, v[1], v[2], v[3], v[4], v[5]),
               <<0, FALSE, FALSE, <<>>, log>>)

\* ------------------------------------------------------------------------
\* normalizers.py: convert_javascript_values
\* ------------------------------------------------------------------------

Null == <<"n", "u", "l", "l">>

Infinity == <<"I", "n", "f", "i", "n", "i", "t", "y">>

\* the keys of js_values, in the order the loop tries them
js_values == << <<"N", "a", "N">>, Infinity,
                <<"u", "n", "d", "e", "f", "i", "n", "e", "d">> >>

\* text[end_pos] is not alphanumeric, or end_pos is past the end
EndOk(text, end_pos) == end_pos >= Len(text) \/ ~isalnum(At(text, end_pos))

\* the first JavaScript value that stands as a word at offset i (<<>> if none)
JsValueAt(text, i) ==
    LET ok(k) == /\ StartsWithAt(text, i, js_values[k])
                 /\ (i = 0 \/ ~isalnum(At(text, i - 1)))
                 /\ EndOk(text, i + Len(js_values[k]))
        hits  == {k \in 1..Len(js_values) : ok(k)}
    IN  IF hits = {} THEN <<>> ELSE js_values[CHOOSE k \in hits : \A m \in hits : k <= m]

javascript_values_iteration(text, i, in_string, escape_next, result, log) ==
    IF i >= Len(text) THEN Ok(result, log)
    ELSE
      LET char == At(text, i)
          signed == <<char>> \o Infinity
          js_val == JsValueAt(text, i)
          convert(original) ==
              IF ~HasKind("JAVASCRIPT_VALUE") THEN Raise("AttributeError", log)
              ELSE Continue(<<i + Len(original), in_string, FALSE,
                       result \o Null,
                       Emit(log, "JAVASCRIPT_VALUE", text, i, original, Null)>>)
      IN
      IF escape_next
      THEN Continue(<<i + 1, in_string, FALSE, Append(result, char), log>>)
      ELSE IF char = "\\" /\ in_string
      THEN Continue(<<i + 1, in_string, TRUE, Append(result, char), log>>)
      ELSE IF char = "\""
      THEN Continue(<<i + 1, ~in_string, FALSE, Append(result, char), log>>)
      ELSE IF ~in_string /\ char \in {"-", "+"} /\ StartsWithAt(text, i, signed)
              /\ EndOk(text, i + Len(signed))
      THEN convert(signed)
      ELSE IF ~in_string /\ js_val # <<>>
      THEN convert(js_val)
      ELSE Continue(<<i + 1, in_string, FALSE, Append(result, char), log>>)

convert_javascript_values(text, log) ==
    IF text = <<>> THEN Ok(text, log)
    ELSE While(LAMBDA v : javascript_values_iteration(text, v[1], v[2], v[3], v[4], v[5]),
               <<0, FALSE, FALSE, <<>>, log>>)

\* ------------------------------------------------------------------------
\* normalizers.py: convert_number_formats
\* ------------------------------------------------------------------------

DigitSeq == <<"0","1","2","3","4","5","6","7","8","9","a","b","c","d","e","f">>

\* the value of one digit in any base up to 16
DigitValue(c) == (CHOOSE k \in 1..Len(DigitSeq) : DigitSeq[k] = lower(c)) - 1

\* int(digits, base), digits without their prefix
RECURSIVE int(_, _)
int(digits, base) ==
    IF digits = <<>> THEN 0
    ELSE int(SubSeq(digits, 1, Len(digits) - 1), base) * base
         + DigitValue(digits[Len(digits)])

\* str(value)
RECURSIVE str(_)
str(value) ==
    IF value < 0 THEN <<"-">> \o str(0 - value)
    ELSE IF value < 10 THEN <<DigitSeq[value + 1]>>
    ELSE str(value \div 10) \o <<DigitSeq[(value % 10) + 1]>>

\* the digits and the base of the prefix letter after a 0
BaseOf(next_char) ==
    CASE next_char = "x" -> [base |-> 16, digits |-> HexDigits]
      [] next_char = "o" -> [base |-> 8,  digits |-> {"0","1","2","3","4","5","6","7"}]
      [] next_char = "b" -> [base |-> 2,  digits |-> {"0","1"}]
      [] OTHER           -> [base |-> 0,  digits |-> {}]

number_formats_iteration(text, i0, in_string, escape_next, result, log) ==
    IF i0 >= Len(text) THEN Ok(result, log)
    ELSE
      LET char0    == At(text, i0)
          negative == char0 = "-" /\ i0 + 1 < Len(text) /\ At(text, i0 + 1) = "0"
          start_i  == i0
          i        == IF negative THEN i0 + 1 ELSE i0
          char     == At(text, i)
          fmt      == IF char = "0" /\ i + 1 < Len(text)
                      THEN BaseOf(lower(At(text, i + 1))) ELSE BaseOf("")
          j        == SkipSet(text, i + 2, fmt.digits)
          value    == int(Slice(text, i + 2, j), fmt.base)
          original == Slice(text, start_i, j)
          replacement == str(IF negative THEN 0 - value ELSE value)
      IN
      IF escape_next
      THEN Continue(<<i0 + 1, in_string, FALSE, Append(result, char0), log>>)
      ELSE IF char0 = "\\" /\ in_string
      THEN Continue(<<i0 + 1, in_string, TRUE, Append(result, char0), log>>)
      ELSE IF char0 = "\""
      THEN Continue(<<i0 + 1, ~in_string, FALSE, Append(result, char0), log>>)
      ELSE IF in_string
      THEN Continue(<<i0 + 1, in_string, FALSE, Append(result, char0), log>>)
      ELSE IF fmt.base # 0 /\ j > i + 2
      THEN IF ~HasKind("NUMBER_FORMAT") THEN Raise("AttributeError", log)
           ELSE Continue(<<j, in_string, FALSE, result \o replacement,
                    Emit(log, "NUMBER_FORMAT", text, start_i, original, replacement)>>)
      ELSE \* no conversion: the sign, if it was consumed, and the character
           Continue(<<i + 1, in_string, FALSE,
               (IF negative THEN Append(result, "-") ELSE result) \o <<char>>, log>>)

convert_number_formats(text, log) ==
    IF text = <<>> THEN Ok(text, log)
    ELSE While(LAMBDA v : number_formats_iteration(text, v[1], v[2], v[3], v[4], v[5]),
               <<0, FALSE, FALSE, <<>>, log>>)

\* ------------------------------------------------------------------------
\* normalizers.py: fix_missing_colons
\* ------------------------------------------------------------------------

True == <<"t", "r", "u", "e">>

False == <<"f", "a", "l", "s", "e">>

\* the largest offset k <= from at which result has a character of chars
\* (member) or a character that is not of chars (~member), or -1
LastBack(result, from, chars, member) ==
    LET hits == {k \in 0..from : (At(result, k) \in chars) = member}
    IN  IF hits = {} THEN -1 ELSE CHOOSE k \in hits : \A m \in hits : k >= m

\* the offset in result of the character before the string that just closed,
\* whitespace skipped (-1 if there is none, or if no opening quote is found)
BeforeKey(result) ==
    LET k == LastBack(result, Len(result) - 2, {"\""}, TRUE)
    IN  IF k < 0 THEN -1 ELSE LastBack(result, k - 1, WS, FALSE)

\* the loop over result that tracks depth and whether the last bracket opened an object
object_context_iteration(result, n, depth, in_obj) ==
    IF n > Len(result) THEN [in_object |-> in_obj /\ depth > 0]
    ELSE LET c == result[n] IN
         IF c = "{" THEN Continue(<<n + 1, depth + 1, TRUE>>)
         ELSE IF c = "[" THEN Continue(<<n + 1, depth + 1, FALSE>>)
         ELSE IF c \in {"}", "]"} THEN Continue(<<n + 1, depth - 1, in_obj>>)
         ELSE Continue(<<n + 1, depth, in_obj>>)

is_value_start(text, j) ==
    LET next_char == At(text, j) IN
    \/ next_char \in {"\"", "{", "[", "-"}
    \/ isdigit(next_char)
    \/ StartsWithAt(text, j, True)
    \/ StartsWithAt(text, j, False)
    \/ StartsWithAt(text, j, Null)

\* a colon is to be inserted after the string that just closed
colon_needed(text, j, result) ==
    /\ j < Len(text)
    /\ At(text, j) # ":"
    /\ is_value_start(text, j)
    /\ LET k == BeforeKey(result) IN
       /\ k >= 0
       /\ \/ At(result, k) \in {"{", ","}
          \/ /\ LET tail == Slice(result, Max(0, k - 3), k + 1) IN
                \/ isdigit(At(result, k))
                \/ At(result, k) \in {"}", "]", "\""}
                \/ endswith(tail, True) \/ endswith(tail, False) \/ endswith(tail, Null)
             /\ While(LAMBDA v : object_context_iteration(result, v[1], v[2], v[3]),
                      <<1, 0, FALSE>>).in_object

missing_colons_iteration(text, i, in_string, escape_next, result, log) ==
    IF i >= Len(text) THEN Ok(result, log)
    ELSE
      LET char == At(text, i) IN
      IF escape_next
      THEN Continue(<<i + 1, in_string, FALSE, Append(result, char), log>>)
      ELSE IF char = "\\" /\ in_string
      THEN Continue(<<i + 1, in_string, TRUE, Append(result, char), log>>)
      ELSE IF char = "\"" /\ ~in_string
      THEN Continue(<<i + 1, TRUE, FALSE, Append(result, char), log>>)
      ELSE IF char = "\""
      THEN \* a closing quote
           LET closed == Append(result, char)
               j      == SkipSet(text, i + 1, WS)
           IN  IF ~colon_needed(text, j, closed)
               THEN Continue(<<i + 1, FALSE, FALSE, closed, log>>)
               ELSE IF ~HasKind("MISSING_COLON") THEN Raise("AttributeError", log)
               ELSE Continue(<<j, FALSE, FALSE,
                        closed \o <<":">> \o Slice(text, i + 1, j),
                        Emit(log, "MISSING_COLON", text, i + 1, <<>>, <<":">>)>>)
      ELSE Continue(<<i + 1, in_string, FALSE, Append(result, char), log>>)

fix_missing_colons(text, log) ==
    IF text = <<>> THEN Ok(text, log)
    ELSE While(LAMBDA v : missing_colons_iteration(text, v[1], v[2], v[3], v[4], v[5]),
               <<0, FALSE, FALSE, <<>>, log>>)

\* ------------------------------------------------------------------------
\* normalizers.py: fix_missing_commas
\* ------------------------------------------------------------------------

NumberChars == Digits \cup {".", "e", "E", "+", "-"}

\* the literal among true, false, null that starts at offset i (<<>> if none)
LiteralAt(text, i) ==
    IF StartsWithAt(text, i, True) THEN True
    ELSE IF StartsWithAt(text, i, False) THEN False
    ELSE IF StartsWithAt(text, i, Null) THEN Null
    ELSE <<>>

missing_commas_iteration(text, i, in_string, escape_next, just_saw_value, brace_stack, result, log) ==
    IF i >= Len(text) THEN Ok(result, log)
    ELSE
      LET char    == At(text, i)
          need    == just_saw_value /\ brace_stack # <<>>
          \* the comma inserted before a value that follows a value
          sep     == IF need THEN <<",", " ">> ELSE <<>>
          log1    == IF need THEN Emit(log, "MISSING_COMMA", text, i, <<>>, <<",">>) ELSE log
          literal == LiteralAt(text, i)
          value(token, stack, saw, instr) ==
              IF need /\ ~HasKind("MISSING_COMMA") THEN Raise("AttributeError", log)
              ELSE Continue(<<i + Len(token), instr, FALSE, saw, stack,
                       result \o sep \o token, log1>>)
          plain(saw, stack) ==
              Continue(<<i + 1, in_string, FALSE, saw, stack,
                                  Append(result, char), log>>)
      IN
      IF escape_next
      THEN plain(just_saw_value, brace_stack)
      ELSE IF char = "\\" /\ in_string
      THEN Continue(<<i + 1, in_string, TRUE, just_saw_value, brace_stack,
                               Append(result, char), log>>)
      ELSE IF char = "\"" /\ ~in_string
      THEN value(<<char>>, brace_stack, FALSE, TRUE)
      ELSE IF char = "\""
      THEN Continue(<<i + 1, FALSE, FALSE, TRUE, brace_stack,
                               Append(result, char), log>>)
      ELSE IF in_string
      THEN plain(just_saw_value, brace_stack)
      ELSE IF char \in {"{", "["}
      THEN value(<<char>>, Append(brace_stack, char), FALSE, FALSE)
      ELSE IF char \in {"}", "]"}
      THEN plain(TRUE, IF brace_stack = <<>> THEN brace_stack
                       ELSE SubSeq(brace_stack, 1, Len(brace_stack) - 1))
      ELSE IF char \in {",", ":"}
      THEN plain(FALSE, brace_stack)
      ELSE IF char \in WS
      THEN plain(just_saw_value, brace_stack)
      ELSE IF isdigit(char) \/ char = "-"
      THEN LET j == SkipSet(text, IF char = "-" THEN i + 1 ELSE i, NumberChars)
           IN  value(Slice(text, i, j), brace_stack, TRUE, FALSE)
      ELSE IF literal # <<>>
      THEN value(literal, brace_stack, TRUE, FALSE)
      ELSE plain(just_saw_value, brace_stack)

fix_missing_commas(text, log) ==
    IF text = <<>> THEN Ok(text, log)
    ELSE
      While(LAMBDA v : missing_commas_iteration(text, v[1], v[2], v[3], v[4], v[5], v[6], v[7]),
            <<0, FALSE, FALSE, FALSE, <<>>, <<>>, log>>)

\* ------------------------------------------------------------------------
\* normalizers.py: fix_unescaped_quotes
\* ------------------------------------------------------------------------

\* the offset of the first character from i on that is in set S (Len(t) if none)
FindSet(t, i, S) ==
    LET hits == {k \in i..(Len(t) - 1) : At(t, k) \in S}
    IN  IF hits = {} THEN Max(i, Len(t)) ELSE CHOOSE k \in hits : \A m \in hits : k <= m

\* the scan past the content of the next string: the offset of its closing
\* quote, or an offset >= len(text); a backslash skips the character after it
RECURSIVE scan_next_string(_, _)
scan_next_string(text, k) ==
    IF k >= Len(text) THEN k
    ELSE IF At(text, k) = "\\" /\ k + 1 < Len(text) THEN scan_next_string(text, k + 2)
    ELSE IF At(text, k) = "\"" THEN k
    ELSE scan_next_string(text, k + 1)

\* "for prev_char in reversed(result)": the nearest bracket before the quote
\* ("" if there is none)
nearest_bracket(result) ==
    LET hits == {k \in 1..Len(result) : result[k] \in {"{", "["}}
    IN  IF hits = {} THEN "" ELSE result[CHOOSE k \in hits : \A m \in hits : k >= m]

starts_literal(text, j) ==
    StartsWithAt(text, j, True) \/ StartsWithAt(text, j, False) \/ StartsWithAt(text, j, Null)

\* the quote is followed by a comma at offset j: it closes the string unless
\* more than three letters follow before the next quote
closes_before_comma(text, j) ==
    LET k == SkipSet(text, j + 1, WS)
        after_comma == At(text, k)
        m == FindSet(text, k + 1, {"\"", "\\"})
        m2 == SkipSet(text, m + 1, WS)
        temp_k == FindSet(text, k, {"\""})
        text_chars == Cardinality({n \in k..(temp_k - 1) : isalpha(At(text, n))})
    IN  \/ /\ k < Len(text)
           /\ IF after_comma = "\""
              THEN /\ m < Len(text) /\ At(text, m) = "\""
                   /\ m2 < Len(text) /\ At(text, m2) = ":"
              ELSE \/ after_comma \in {"{", "[", "-"}
                   \/ isdigit(after_comma)
                   \/ starts_literal(text, k)
        \/ ~(text_chars > 3)

\* the quote is followed by another quote at offset j
closes_before_quote(text, j, result) ==
    LET k == scan_next_string(text, j + 1)
        m == SkipSet(text, k + 1, WS)
    IN  /\ k < Len(text) /\ At(text, k) = "\""
        /\ k # j + 1
        /\ m < Len(text)
        /\ \/ At(text, m) = ":"
           \/ At(text, m) \in {"}", ",", "]"}
           \/ At(text, m) = "," /\ nearest_bracket(result) = "{"
           \/ At(text, m) = "\"" /\ nearest_bracket(result) = "["

\* the quote is followed by the start of a value that is not a string
closes_before_value(text, j, result) ==
    LET next_char == At(text, j)
        num_end   == SkipSet(text, j, NumberChars)
    IN  IF isdigit(next_char) \/ next_char = "-"
        THEN /\ ~(num_end < Len(text) /\ At(text, num_end) = "\"")
             /\ nearest_bracket(result) # ""
        ELSE /\ next_char \in {"{", "["} \/ starts_literal(text, j)
             /\ nearest_bracket(result) # ""

\* the quote at offset i, met inside a string, is taken as the closing quote
is_closing_quote(text, i, result) ==
    LET j == SkipSet(text, i + 1, WS) IN
    IF j >= Len(text) THEN TRUE
    ELSE LET next_char == At(text, j) IN
         IF next_char \in {"]", "}"} THEN TRUE
         ELSE IF next_char = "," THEN closes_before_comma(text, j)
         ELSE IF next_char = ":" THEN TRUE
         ELSE IF next_char = "\"" THEN closes_before_quote(text, j, result)
         ELSE closes_before_value(text, j, result)

unescaped_quotes_iteration(text, i, in_string, escape_next, result, log) ==
    IF i >= Len(text) THEN Ok(result, log)
    ELSE
      LET char == At(text, i) IN
      IF escape_next
      THEN Continue(<<i + 1, in_string, FALSE, Append(result, char), log>>)
      ELSE IF char = "\\"
      THEN Continue(<<i + 1, in_string, in_string, Append(result, char), log>>)
      ELSE IF char = "\"" /\ ~in_string
      THEN Continue(<<i + 1, TRUE, FALSE, Append(result, char), log>>)
      ELSE IF char = "\"" /\ is_closing_quote(text, i, result)
      THEN Continue(<<i + 1, FALSE, FALSE, Append(result, char), log>>)
      ELSE IF char = "\""
      THEN \* an unescaped internal quote: escape it
           IF ~HasKind("UNESCAPED_QUOTE") THEN Raise("AttributeError", log)
           ELSE Continue(<<i + 1, in_string, FALSE, result \o <<"\\", "\"">>,
                    Emit(log, "UNESCAPED_QUOTE", text, i, <<"\"">>, <<"\\", "\"">>)>>)
      ELSE Continue(<<i + 1, in_string, FALSE, Append(result, char), log>>)

fix_unescaped_quotes(text, log) ==
    IF text = <<>> THEN Ok(text, log)
    ELSE While(LAMBDA v : unescaped_quotes_iteration(text, v[1], v[2], v[3], v[4], v[5]),
               <<0, FALSE, FALSE, <<>>, log>>)

\* ------------------------------------------------------------------------
\* The strict parser, json.loads, as loads_relaxed calls it (parser.py lines
\* 432 and 570).  A value is a tagged tuple: <<"literal", name>>,
\* <<"int", n>>, <<"float", lexeme>>, <<"string", characters>>,
\* <<"array", values>>, <<"object", <<key, value>> pairs>>.
\* ------------------------------------------------------------------------

Parsed(value, end) == [ok |-> TRUE, value |-> value, end |-> end]

\* the scan raised JSONDecodeError
NoParse == [ok |-> FALSE, value |-> <<>>, end |-> 0]

\* the character each one-letter escape stands for
BACKSLASH ==
    [c \in {"\"", "\\", "/", "b", "f", "n", "r", "t"} |->
        CASE c = "b" -> "U0008"
          [] c = "f" -> "\f"
          [] c = "n" -> "\n"
          [] c = "r" -> "\r"
          [] c = "t" -> "\t"
          [] OTHER   -> c]

\* the characters of the model that a \uXXXX escape names: the grave accent,
\* the curly double and single quotes, the ellipsis, the BOM
EscapedChars ==
    [esc \in {<<"0", "0", "6", "0">>, <<"2", "0", "1", "c">>, <<"2", "0", "1", "d">>,
              <<"2", "0", "1", "8">>, <<"2", "0", "1", "9">>, <<"2", "0", "2", "6">>,
              <<"f", "e", "f", "f">>} |->
        CASE esc = <<"0", "0", "6", "0">> -> "U0060"
          [] esc = <<"2", "0", "1", "c">> -> "U201C"
          [] esc = <<"2", "0", "1", "d">> -> "U201D"
          [] esc = <<"2", "0", "1", "8">> -> "U2018"
          [] esc = <<"2", "0", "1", "9">> -> "U2019"
          [] esc = <<"2", "0", "2", "6">> -> "U2026"
          [] esc = <<"f", "e", "f", "f">> -> "UFEFF"]

\* chr(int(esc, 16)) for the four digits of a \uXXXX escape, in lower case:
\* the character when the model has a name for it, and otherwise the marker
\* "\\u" followed by the four digits
unichr(esc) ==
    IF esc \in DOMAIN EscapedChars THEN <<EscapedChars[esc]>> ELSE <<"\\u">> \o esc

\* the string whose content starts at offset end: chunks up to a quote, a
\* backslash or a control character, and the character of each escape
RECURSIVE py_scanstring(_, _, _)
py_scanstring(s, end, chunks) ==
    LET stop    == FindSet(s, end, {"\"", "\\"} \cup Control)
        content == chunks \o Slice(s, end, stop)
        esc     == At(s, stop + 1)
    IN  IF stop >= Len(s) THEN NoParse
        ELSE IF At(s, stop) = "\"" THEN Parsed(<<"string", content>>, stop + 1)
        ELSE IF At(s, stop) # "\\" THEN NoParse
        ELSE IF stop + 1 >= Len(s) THEN NoParse
        ELSE IF esc = "u"
        THEN IF stop + 6 <= Len(s) /\ \A k \in 2..5 : At(s, stop + k) \in HexDigits
             THEN py_scanstring(s, stop + 6,
                      content \o unichr([k \in 1..4 |-> lower(At(s, stop + 1 + k))]))
             ELSE NoParse
        ELSE IF esc \in DOMAIN BACKSLASH
        THEN py_scanstring(s, stop + 2, Append(content, BACKSLASH[esc]))
        ELSE NoParse

\* the end of the group (\.\d+)? or ([eE][-+]?\d+)? of NUMBER_RE matched at
\* offset e: marks are the characters the group starts with, and a sign may
\* follow them when signed
group_end(s, e, marks, signed) ==
    LET d == IF signed /\ e + 1 < Len(s) /\ At(s, e + 1) \in {"+", "-"}
             THEN e + 2 ELSE e + 1
    IN  IF e < Len(s) /\ At(s, e) \in marks /\ d < Len(s) /\ isdigit(At(s, d))
        THEN SkipSet(s, d, Digits) ELSE e

\* the number that NUMBER_RE, (-?(?:0|[1-9]\d*))(\.\d+)?([eE][-+]?\d+)?,
\* matches at offset idx with its integer part from d0 to int_end
number(s, idx, d0, int_end, end) ==
    IF end = int_end
    THEN Parsed(<<"int", IF d0 > idx THEN 0 - int(Slice(s, d0, int_end), 10)
                         ELSE int(Slice(s, d0, int_end), 10)>>, end)
    ELSE Parsed(<<"float", Slice(s, idx, end)>>, end)

match_number(s, idx, d0) ==
    IF d0 >= Len(s) \/ ~isdigit(At(s, d0)) THEN NoParse
    ELSE IF At(s, d0) = "0"
    THEN number(s, idx, d0, d0 + 1,
                group_end(s, group_end(s, d0 + 1, {"."}, FALSE), {"e", "E"}, TRUE))
    ELSE number(s, idx, d0, SkipSet(s, d0, Digits),
                group_end(s, group_end(s, SkipSet(s, d0, Digits), {"."}, FALSE),
                          {"e", "E"}, TRUE))

\* dict(pairs): a repeated key keeps its first place and takes the last value
dict_set(pairs, key, value) ==
    IF \E k \in 1..Len(pairs) : pairs[k][1] = key
    THEN [k \in 1..Len(pairs) |-> IF pairs[k][1] = key THEN <<key, value>> ELSE pairs[k]]
    ELSE Append(pairs, <<key, value>>)

RECURSIVE scan_once(_, _)
RECURSIVE JSONArray(_, _, _)
RECURSIVE JSONObject(_, _, _)

\* what follows the element v of an array: the end of the array or a comma
array_element(s, values, v) ==
    LET end == SkipSet(s, v.end, WS) IN
    IF ~v.ok \/ end >= Len(s) THEN NoParse
    ELSE IF At(s, end) = "]" THEN Parsed(<<"array", Append(values, v.value)>>, end + 1)
    ELSE IF At(s, end) = ","
    THEN JSONArray(s, SkipSet(s, end + 1, WS), Append(values, v.value))
    ELSE NoParse

\* the elements of an array, the next of which starts at offset i
JSONArray(s, i, values) == array_element(s, values, scan_once(s, i))

\* what follows the value v of a member: the end of the object, or a comma
\* and the opening quote of the next key
object_member(s, pairs, v) ==
    LET end  == SkipSet(s, v.end, WS)
        more == SkipSet(s, end + 1, WS)
    IN  IF ~v.ok \/ end >= Len(s) THEN NoParse
        ELSE IF At(s, end) = "}" THEN Parsed(<<"object", pairs>>, end + 1)
        ELSE IF At(s, end) = "," /\ more < Len(s) /\ At(s, more) = "\""
        THEN JSONObject(s, more + 1, pairs)
        ELSE NoParse

\* the colon and the value after the key of a member
object_value(s, pairs, key) ==
    LET colon == SkipSet(s, key.end, WS)
        v     == scan_once(s, SkipSet(s, colon + 1, WS))
    IN  IF ~key.ok \/ colon >= Len(s) \/ At(s, colon) # ":" THEN NoParse
        ELSE object_member(s, IF v.ok THEN dict_set(pairs, key.value[2], v.value)
                              ELSE pairs, v)

\* the members of an object, the content of the next key starting at offset i
JSONObject(s, i, pairs) == object_value(s, pairs, py_scanstring(s, i, <<>>))

\* the value that starts at offset idx
scan_once(s, idx) ==
    IF idx >= Len(s) THEN NoParse
    ELSE
      LET nextchar == At(s, idx)
          first    == SkipSet(s, idx + 1, WS)
      IN
      IF nextchar = "\"" THEN py_scanstring(s, idx + 1, <<>>)
      ELSE IF nextchar = "{"
      THEN IF first < Len(s) /\ At(s, first) = "}" THEN Parsed(<<"object", <<>>>>, first + 1)
           ELSE IF first < Len(s) /\ At(s, first) = "\"" THEN JSONObject(s, first + 1, <<>>)
           ELSE NoParse
      ELSE IF nextchar = "["
      THEN IF first < Len(s) /\ At(s, first) = "]" THEN Parsed(<<"array", <<>>>>, first + 1)
           ELSE JSONArray(s, first, <<>>)
      ELSE IF StartsWithAt(s, idx, Null) THEN Parsed(<<"literal", "null">>, idx + 4)
      ELSE IF StartsWithAt(s, idx, True) THEN Parsed(<<"literal", "true">>, idx + 4)
      ELSE IF StartsWithAt(s, idx, False) THEN Parsed(<<"literal", "false">>, idx + 5)
      ELSE IF StartsWithAt(s, idx, <<"N", "a", "N">>) THEN Parsed(<<"literal", "NaN">>, idx + 3)
      ELSE IF StartsWithAt(s, idx, Infinity) THEN Parsed(<<"literal", "Infinity">>, idx + 8)
      ELSE IF StartsWithAt(s, idx, <<"-">> \o Infinity)
      THEN Parsed(<<"literal", "-Infinity">>, idx + 9)
      ELSE match_number(s, idx, IF nextchar = "-" THEN idx + 1 ELSE idx)

\* the value of a document, which nothing but whitespace may follow
document(s, r) ==
    IF ~r.ok \/ SkipSet(s, r.end, WS) # Len(s)
    THEN [err |-> "JSONDecodeError", value |-> <<>>]
    ELSE [err |-> "none", value |-> r.value]

\* json.loads(s): the value, or JSONDecodeError (a BOM, no value, extra data)
json_loads(s) ==
    IF startswith(s, <<"UFEFF">>) THEN [err |-> "JSONDecodeError", value |-> <<>>]
    ELSE document(s, scan_once(s, SkipSet(s, 0, WS)))

\* ------------------------------------------------------------------------
\* parser.py: loads_relaxed, one call of it as a state machine
\* ------------------------------------------------------------------------

VARIABLES
    s,              \* the argument s
    strict,         \* the argument strict
    options,        \* the nineteen feature flags
    on_repair,      \* the argument on_repair
    log_supplied,   \* repair_log is not None
    repair_log,     \* the caller's list (empty when none was supplied)
    local_repairs,  \* the list the call makes for itself
    processed,      \* the local variable processed
    pc,             \* the statement the call is at
    outcome,        \* how the call ended: a returned value or a raised exception
    ran,            \* the transforms that have run, in the order they ran
    parser_calls,   \* the number of times json.loads was called
    warnings,       \* the warnings emitted by warnings.warn
    entry_log,      \* the caller's list as it was when the call began
    parsed,         \* cli.main: the parsed command line (files, output, verbose, backup, dry_run)
    file_index,     \* cli.main: the number of files the loop has passed
    success,        \* cli.main: the local variable success
    err_stream,     \* cli: what was written to the error stream
    written,        \* cli: the destinations write_output has written
    main_result,    \* cli.main: the value returned, or the exception that left it
    main_pc,        \* cli.main: the statement it is at
    unit_call,      \* a direct call of one transform: its name and arguments
    unit_result     \* what that call returned or raised

vars == <<s, strict, options, on_repair, log_supplied, repair_log, local_repairs,
          processed, pc, outcome, ran, parser_calls, warnings, entry_log,
          parsed, file_index, success, err_stream, written, main_result, main_pc,
          unit_call, unit_result>>

\* the keyword arguments of loads_relaxed that switch a transform on or off
OptionNames ==
    {"allow_trailing_commas", "allow_comments", "normalize_quotes",
     "allow_single_quote_strings", "allow_unquoted_keys", "convert_python_literals",
     "escape_newlines", "auto_close_brackets", "remove_ellipsis", "extract_json",
     "remove_markdown_fences", "fix_unescaped_quotes", "fix_missing_colon",
     "fix_missing_comma", "escape_control_chars", "fix_unescaped_backslash",
     "convert_javascript_values", "convert_number_formats", "remove_double_commas"}

\* every option defaults to True
Defaults == [o \in OptionNames |-> TRUE]

\* the option records of the modelled calls: the defaults, one feature
\* disabled, every feature disabled
OptionSets ==
    {Defaults, [o \in OptionNames |-> FALSE]}
        \cup {[Defaults EXCEPT ![o] = FALSE] : o \in OptionNames}

BOM == "UFEFF"

\* the pieces the input texts are made of
Fragments ==
    { <<"[", "1">>, <<"]">>, <<",">>, <<"{", "a", ":", "1">>, <<"}">>,
      <<"#", "c", "\n">>, <<"\"", "{", "\"">>, <<"/", "*">>,
      <<"T", "r", "u", "e">>, <<"'", "b", "'">>, <<".", ".", ".">>,
      <<"\"", "x", "\n", "\"">>, <<"U201C", "a", "U201D">>, <<BOM>> }

MaxFrags == 3

\* the texts made of at most n fragments
RECURSIVE Texts(_)
Texts(n) ==
    IF n = 0 THEN {<<>>}
    ELSE LET shorter == Texts(n - 1)
         IN  shorter \cup {t \o f : t \in shorter, f \in Fragments}

\* the texts that are passed under every combination of the other arguments
Samples ==
    { <<"[", "1", "]">>, <<"[", "1", ",", "]">>, <<"{", "a", ":", "1">>,
      <<"[", "1", ",", ",", "2", "]">>,
      <<"{", "a", ":", "1", ",", "b", ":", "2", ",", "}">>,
      <<"/", "*", "\"", "*", "/", "[", "\"", "T", "r", "u", "e", "\"", "]">>,
      <<"[", "N", "a", "N", "]">>,
      <<"[", "\"", "\\", "u", "0", "0", "6", "0", "\"", "]">>,
      <<"[", "1", "]", "#", "/", "*">>,
      <<"[", "1", ",", ",", "]">>,
      <<"[", "\"", "a", "\"", ",", "\"", "b", "\"", " ", "\"", "c", "\"", "]">>,
      <<"[", "1", ",", "#", "\"", "\n", "2", "]">> }

\* a caller's list that an earlier call, on the text [1,] , has left a repair in
EarlierLog == _remove_trailing_commas(<<"[", "1", ",", "]">>, <<>>).log

\* the calls of the model: every text under the default arguments with an
\* empty list, and the samples under every combination of arguments
Calls ==
    [s : Texts(MaxFrags), strict : {FALSE}, options : {Defaults},
     on_repair : {"ignore"}, log_supplied : {TRUE}, repair_log : {<<>>}]
    \cup
    [s : Samples, strict : BOOLEAN, options : OptionSets,
     on_repair : {"ignore", "warn", "error", "raise"},
     log_supplied : {TRUE}, repair_log : {<<>>, EarlierLog}]
    \cup
    [s : Samples, strict : BOOLEAN, options : OptionSets,
     on_repair : {"ignore", "warn", "error", "raise"},
     log_supplied : {FALSE}, repair_log : {<<>>}]

Returned(value) == [status |-> "returned", exc |-> "none", value |-> value, detail |-> <<>>]

Raised(exc, detail) == [status |-> "raised", exc |-> exc, value |-> <<>>, detail |-> detail]

\* cli.main is not running
NoMain ==
    /\ parsed = [files |-> <<>>, output |-> "None", verbose |-> FALSE,
                 backup |-> FALSE, dry_run |-> FALSE]
    /\ file_index = 0
    /\ success = TRUE
    /\ err_stream = <<>>
    /\ written = <<>>
    /\ main_result = [status |-> "none", code |-> 0, exc |-> "none"]
    /\ main_pc = "none"

\* no transform is being called directly
NoUnitCall ==
    /\ unit_call = [normalizer |-> "none", text |-> <<>>, log |-> <<>>]
    /\ unit_result = [status |-> "none", err |-> "none", text |-> <<>>, log |-> <<>>]

Init ==
    \E call \in Calls :
        /\ s = call.s
        /\ strict = call.strict
        /\ options = call.options
        /\ on_repair = call.on_repair
        /\ log_supplied = call.log_supplied
        /\ repair_log = call.repair_log
        /\ entry_log = call.repair_log
        /\ local_repairs = <<>>
        /\ processed = <<>>
        /\ pc = "validate"
        /\ outcome = [status |-> "running", exc |-> "none", value |-> <<>>, detail |-> <<>>]
        /\ ran = <<>>
        /\ parser_calls = 0
        /\ warnings = <<>>
        /\ NoMain
        /\ NoUnitCall

arguments == <<s, strict, options, on_repair, log_supplied, entry_log>>

\* the variables of cli.main, and those of a direct call of one transform
cli == <<parsed, file_index, success, err_stream, written, main_result, main_pc>>

unit == <<unit_call, unit_result>>

\* actual_log = repair_log if repair_log is not None else local_repairs
actual_log == IF log_supplied THEN repair_log ELSE local_repairs


\* actual_log rebound to a new list instead of appended to
SetActualLog_rebound(log) ==
    IF log_supplied
    THEN repair_log' = SubSeq(log, Len(repair_log) + 1, Len(log)) /\ UNCHANGED local_repairs
    ELSE local_repairs' = log /\ UNCHANGED repair_log

\* an append to actual_log is an append to the list it is an alias of
SetActualLog(log) ==
    IF log_supplied
    THEN repair_log' = log /\ UNCHANGED local_repairs
    ELSE local_repairs' = log /\ UNCHANGED repair_log

\* how a call that ends in "return json.loads(text)" ends
ParserOutcome(text) ==
    LET r == json_loads(text)
    IN  IF r.err = "none" THEN Returned(r.value) ELSE Raised(r.err, <<>>)

\* return json.loads(text), or the JSONDecodeError it raises
CallParser(text) ==
    /\ outcome' = ParserOutcome(text)
    /\ parser_calls' = parser_calls + 1
    /\ pc' = "done"


\* the check of on_repair without the strict shortcut
Validate_without_shortcut ==
    /\ pc = "validate"
    /\ IF on_repair \notin {"ignore", "warn", "error"}
       THEN /\ outcome' = Raised("ValueError", <<"Invalid on_repair value", on_repair>>)
            /\ pc' = "done"
       ELSE /\ pc' = "strip_bom"
            /\ UNCHANGED outcome
    /\ UNCHANGED <<cli, unit, arguments, repair_log, local_repairs, processed, ran, warnings,
                   parser_calls>>

\* the check of on_repair and the strict shortcut
Validate ==
    /\ pc = "validate"
    /\ IF on_repair \notin {"ignore", "warn", "error"}
       THEN /\ outcome' = Raised("ValueError", <<"Invalid on_repair value", on_repair>>)
            /\ pc' = "done"
            /\ UNCHANGED parser_calls
       ELSE IF strict
       THEN CallParser(s)
       ELSE /\ pc' = "strip_bom"
            /\ UNCHANGED <<outcome, parser_calls>>
    /\ UNCHANGED <<cli, unit, arguments, repair_log, local_repairs, processed, ran, warnings>>

\* local_repairs = [], processed = s, and step 0
StripBOM ==
    /\ pc = "strip_bom"
    /\ local_repairs' = <<>>
    /\ processed' = IF startswith(s, <<BOM>>) THEN From(s, 1) ELSE s
    /\ ran' = Append(ran, "strip_bom")
    /\ pc' = "remove_markdown_fences"
    /\ UNCHANGED <<cli, unit, arguments, repair_log, outcome, parser_calls, warnings>>

\* "if <option>: processed = <normalizer>(processed, actual_log)": r is what
\* the normalizer does on processed and actual_log
Step(stage, option, r, next) ==
    /\ pc = stage
    /\ IF ~options[option]
       THEN /\ pc' = next
            /\ UNCHANGED <<repair_log, local_repairs, processed, outcome, ran>>
       ELSE /\ SetActualLog(r.log)
            /\ ran' = Append(ran, stage)
            /\ IF r.err = "none"
               THEN processed' = r.text /\ pc' = next /\ UNCHANGED outcome
               ELSE outcome' = Raised(r.err, <<>>) /\ pc' = "done" /\ UNCHANGED processed
    /\ UNCHANGED <<cli, unit, arguments, parser_calls, warnings>>

RemoveMarkdownFences ==
    Step("remove_markdown_fences", "remove_markdown_fences",
         remove_markdown_fences(processed, actual_log), "extract_json_from_text")

ExtractJson ==
    Step("extract_json_from_text", "extract_json",
         extract_json_from_text(processed, actual_log), "normalize_quotes")

NormalizeQuotes ==
    Step("normalize_quotes", "normalize_quotes",
         normalize_quotes(processed, actual_log), "convert_single_quote_strings")

ConvertSingleQuoteStrings ==
    Step("convert_single_quote_strings", "allow_single_quote_strings",
         convert_single_quote_strings(processed, actual_log), "quote_unquoted_keys")

QuoteUnquotedKeys ==
    Step("quote_unquoted_keys", "allow_unquoted_keys",
         quote_unquoted_keys(processed, actual_log), "convert_python_literals")


\* the Python literals followed at once by the escape of newlines
ConvertPythonLiterals_skipping ==
    Step("convert_python_literals", "convert_python_literals",
         convert_python_literals(processed, actual_log), "escape_newlines_in_strings")

ConvertPythonLiterals ==
    Step("convert_python_literals", "convert_python_literals",
         convert_python_literals(processed, actual_log), "fix_unescaped_backslash")

FixUnescapedBackslash ==
    Step("fix_unescaped_backslash", "fix_unescaped_backslash",
         fix_unescaped_backslash(processed, actual_log), "escape_newlines_in_strings")

EscapeNewlines ==
    Step("escape_newlines_in_strings", "escape_newlines",
         escape_newlines_in_strings(processed, actual_log), "escape_control_characters")

EscapeControlCharacters ==
    Step("escape_control_characters", "escape_control_chars",
         escape_control_characters(processed, actual_log), "remove_ellipsis_markers")

RemoveEllipsis ==
    Step("remove_ellipsis_markers", "remove_ellipsis",
         remove_ellipsis_markers(processed, actual_log), "_strip_comments")

\* the comment strip with an unclosed comment left in the text
StripComments_unchecked ==
    Step("_strip_comments", "allow_comments",
         LET r == _strip_comments(processed, actual_log)
         IN  IF r.err = "RelaxedJSONError" THEN Ok(processed, r.log) ELSE r,
         "convert_number_formats")

StripComments ==
    Step("_strip_comments", "allow_comments",
         _strip_comments(processed, actual_log), "convert_number_formats")

ConvertNumberFormats ==
    Step("convert_number_formats", "convert_number_formats",
         convert_number_formats(processed, actual_log), "convert_javascript_values")

ConvertJavascriptValues ==
    Step("convert_javascript_values", "convert_javascript_values",
         convert_javascript_values(processed, actual_log), "fix_missing_colons")

FixMissingColons ==
    Step("fix_missing_colons", "fix_missing_colon",
         fix_missing_colons(processed, actual_log), "fix_unescaped_quotes")

FixUnescapedQuotes ==
    Step("fix_unescaped_quotes", "fix_unescaped_quotes",
         fix_unescaped_quotes(processed, actual_log), "fix_missing_commas")

FixMissingCommas ==
    Step("fix_missing_commas", "fix_missing_comma",
         fix_missing_commas(processed, actual_log), "_auto_close_brackets")

AutoCloseBrackets ==
    Step("_auto_close_brackets", "auto_close_brackets",
         _auto_close_brackets(processed, actual_log), "_remove_trailing_commas")

RemoveTrailingCommas ==
    Step("_remove_trailing_commas", "allow_trailing_commas",
         _remove_trailing_commas(processed, actual_log), "remove_double_commas")

RemoveDoubleCommas ==
    Step("remove_double_commas", "remove_double_commas",
         remove_double_commas(processed, actual_log), "dispatch")

\* "Repair needed at line {line}, column {column}: {message}"
RepairNeeded(repair) == <<"Repair needed", repair.line, repair.column, repair.message>>

\* "JSON repair at line {line}: {message}", one warning per entry of the list
RepairWarnings(log) == [k \in DOMAIN log |-> <<"JSON repair", log[k].line, log[k].message>>]


\* the dispatch that reports the last repair of the list
Dispatch_last_repair ==
    /\ pc = "dispatch"
    /\ IF actual_log # <<>> /\ on_repair = "error"
       THEN /\ outcome' = Raised("ValueError", RepairNeeded(actual_log[Len(actual_log)]))
            /\ pc' = "done"
            /\ UNCHANGED warnings
       ELSE /\ warnings' = IF actual_log # <<>> /\ on_repair = "warn"
                           THEN warnings \o RepairWarnings(actual_log) ELSE warnings
            /\ pc' = "parse"
            /\ UNCHANGED outcome
    /\ UNCHANGED <<cli, unit, arguments, repair_log, local_repairs, processed, ran, parser_calls>>

\* the on_repair dispatch
Dispatch ==
    /\ pc = "dispatch"
    /\ IF actual_log # <<>> /\ on_repair = "error"
       THEN /\ outcome' = Raised("ValueError", RepairNeeded(actual_log[1]))
            /\ pc' = "done"
            /\ UNCHANGED warnings
       ELSE /\ warnings' = IF actual_log # <<>> /\ on_repair = "warn"
                           THEN warnings \o RepairWarnings(actual_log) ELSE warnings
            /\ pc' = "parse"
            /\ UNCHANGED outcome
    /\ UNCHANGED <<cli, unit, arguments, repair_log, local_repairs, processed, ran, parser_calls>>

\* return json.loads(processed)
Parse ==
    /\ pc = "parse"
    /\ CallParser(processed)
    /\ UNCHANGED <<cli, unit, arguments, repair_log, local_repairs, processed, ran, warnings>>

Next ==
    \/ Validate
    \/ StripBOM
    \/ RemoveMarkdownFences
    \/ ExtractJson
    \/ NormalizeQuotes
    \/ ConvertSingleQuoteStrings
    \/ QuoteUnquotedKeys
    \/ ConvertPythonLiterals
    \/ FixUnescapedBackslash
    \/ EscapeNewlines
    \/ EscapeControlCharacters
    \/ RemoveEllipsis
    \/ StripComments
    \/ ConvertNumberFormats
    \/ ConvertJavascriptValues
    \/ FixMissingColons
    \/ FixUnescapedQuotes
    \/ FixMissingCommas
    \/ AutoCloseBrackets
    \/ RemoveTrailingCommas
    \/ RemoveDoubleCommas
    \/ Dispatch
    \/ Parse

Spec == Init /\ [][Next]_vars

\* ------------------------------------------------------------------------
\* parser.py: a whole call of loads_relaxed, as its callers see it
\* ------------------------------------------------------------------------

\* the option that switches a stage on or off
OptionOf(stage) ==
    CASE stage = "remove_markdown_fences"       -> "remove_markdown_fences"
      [] stage = "extract_json_from_text"       -> "extract_json"
      [] stage = "normalize_quotes"             -> "normalize_quotes"
      [] stage = "convert_single_quote_strings" -> "allow_single_quote_strings"
      [] stage = "quote_unquoted_keys"          -> "allow_unquoted_keys"
      [] stage = "convert_python_literals"      -> "convert_python_literals"
      [] stage = "fix_unescaped_backslash"      -> "fix_unescaped_backslash"
      [] stage = "escape_newlines_in_strings"   -> "escape_newlines"
      [] stage = "escape_control_characters"    -> "escape_control_chars"
      [] stage = "remove_ellipsis_markers"      -> "remove_ellipsis"
      [] stage = "_strip_comments"              -> "allow_comments"
      [] stage = "convert_number_formats"       -> "convert_number_formats"
      [] stage = "convert_javascript_values"    -> "convert_javascript_values"
      [] stage = "fix_missing_colons"           -> "fix_missing_colon"
      [] stage = "fix_unescaped_quotes"         -> "fix_unescaped_quotes"
      [] stage = "fix_missing_commas"           -> "fix_missing_comma"
      [] stage = "_auto_close_brackets"         -> "auto_close_brackets"
      [] stage = "_remove_trailing_commas"      -> "allow_trailing_commas"
      [] stage = "remove_double_commas"         -> "remove_double_commas"

\* the transform of a stage of loads_relaxed, called on a text and a list
Normalize(stage, text, log) ==
    CASE stage = "remove_markdown_fences"       -> remove_markdown_fences(text, log)
      [] stage = "extract_json_from_text"       -> extract_json_from_text(text, log)
      [] stage = "normalize_quotes"             -> normalize_quotes(text, log)
      [] stage = "convert_single_quote_strings" -> convert_single_quote_strings(text, log)
      [] stage = "quote_unquoted_keys"          -> quote_unquoted_keys(text, log)
      [] stage = "convert_python_literals"      -> convert_python_literals(text, log)
      [] stage = "fix_unescaped_backslash"      -> fix_unescaped_backslash(text, log)
      [] stage = "escape_newlines_in_strings"   -> escape_newlines_in_strings(text, log)
      [] stage = "escape_control_characters"    -> escape_control_characters(text, log)
      [] stage = "remove_ellipsis_markers"      -> remove_ellipsis_markers(text, log)
      [] stage = "_strip_comments"              -> _strip_comments(text, log)
      [] stage = "convert_number_formats"       -> convert_number_formats(text, log)
      [] stage = "convert_javascript_values"    -> convert_javascript_values(text, log)
      [] stage = "fix_missing_colons"           -> fix_missing_colons(text, log)
      [] stage = "fix_unescaped_quotes"         -> fix_unescaped_quotes(text, log)
      [] stage = "fix_missing_commas"           -> fix_missing_commas(text, log)
      [] stage = "_auto_close_brackets"         -> _auto_close_brackets(text, log)
      [] stage = "_remove_trailing_commas"      -> _remove_trailing_commas(text, log)
      [] stage = "remove_double_commas"         -> remove_double_commas(text, log)

\* the transforms in the order of the statements of loads_relaxed
Pipeline ==
    <<"remove_markdown_fences", "extract_json_from_text", "normalize_quotes",
      "convert_single_quote_strings", "quote_unquoted_keys", "convert_python_literals",
      "fix_unescaped_backslash", "escape_newlines_in_strings",
      "escape_control_characters", "remove_ellipsis_markers", "_strip_comments",
      "convert_number_formats", "convert_javascript_values", "fix_missing_colons",
      "fix_unescaped_quotes", "fix_missing_commas", "_auto_close_brackets",
      "_remove_trailing_commas", "remove_double_commas">>

\* the statements "if <option>: processed = <normalizer>(processed, actual_log)"
\* from the n-th on: the processed text and the list, or the exception raised
RECURSIVE transforms(_, _, _, _)
transforms(n, opts, text, log) ==
    IF n > Len(Pipeline) THEN Ok(text, log)
    ELSE IF ~opts[OptionOf(Pipeline[n])] THEN transforms(n + 1, opts, text, log)
    ELSE Let(Normalize(Pipeline[n], text, log),
             LAMBDA r : IF r.err # "none" THEN r
                        ELSE transforms(n + 1, opts, r.text, r.log))

\* loads_relaxed(text, repair_log=log), every other argument at its default:
\* the value returned or the exception raised, and the list after the call
loads_relaxed(text, log) ==
    Let(transforms(1, Defaults, IF startswith(text, <<BOM>>) THEN From(text, 1) ELSE text,
                   log),
        LAMBDA r :
            IF r.err # "none" THEN [err |-> r.err, value |-> <<>>, log |-> r.log]
            ELSE Let(json_loads(r.text),
                     LAMBDA v : [err |-> v.err, value |-> v.value, log |-> r.log]))

\* ------------------------------------------------------------------------
\* Properties of a call of loads_relaxed
\* ------------------------------------------------------------------------

\* a is the beginning of b
IsPrefix(a, b) == Len(a) <= Len(b) /\ SubSeq(b, 1, Len(a)) = a

\* the repairs this call has appended to the list it logs to
NewRepairs == SubSeq(actual_log, Len(entry_log) + 1, Len(actual_log))

\* the stages in the order of the pipeline table of the specification
SpecOrder ==
    <<"strip_bom", "remove_markdown_fences", "extract_json_from_text",
      "normalize_quotes", "convert_single_quote_strings", "quote_unquoted_keys",
      "convert_python_literals", "fix_unescaped_backslash",
      "escape_newlines_in_strings", "escape_control_characters",
      "remove_ellipsis_markers", "_strip_comments", "convert_number_formats",
      "convert_javascript_values", "fix_missing_colons", "fix_unescaped_quotes",
      "fix_missing_commas", "_auto_close_brackets", "_remove_trailing_commas",
      "remove_double_commas">>

\* the stages of the specification's order that the options of the call enable
EnabledStages ==
    SelectSeq(SpecOrder, LAMBDA stage : stage = "strip_bom" \/ options[OptionOf(stage)])

\* the repair kinds each stage names when it logs
KindsOf(stage) ==
    CASE stage = "remove_markdown_fences"       -> {"MARKDOWN_FENCE_REMOVED"}
      [] stage = "extract_json_from_text"       -> {"JSON_EXTRACTED"}
      [] stage = "normalize_quotes"             -> {"SMART_QUOTE"}
      [] stage = "convert_single_quote_strings" -> {"SINGLE_QUOTE_STRING"}
      [] stage = "quote_unquoted_keys"          -> {"UNQUOTED_KEY"}
      [] stage = "convert_python_literals"      -> {"PYTHON_LITERAL"}
      [] stage = "fix_unescaped_backslash"      -> {"UNESCAPED_BACKSLASH"}
      [] stage = "escape_newlines_in_strings"   -> {"UNESCAPED_NEWLINE"}
      [] stage = "escape_control_characters"    -> {"CONTROL_CHARACTER"}
      [] stage = "remove_ellipsis_markers"      -> {"TRUNCATION_MARKER"}
      [] stage = "_strip_comments"              ->
             {"SINGLE_LINE_COMMENT", "MULTI_LINE_COMMENT", "HASH_COMMENT"}
      [] stage = "convert_number_formats"       -> {"NUMBER_FORMAT"}
      [] stage = "convert_javascript_values"    -> {"JAVASCRIPT_VALUE"}
      [] stage = "fix_missing_colons"           -> {"MISSING_COLON"}
      [] stage = "fix_unescaped_quotes"         -> {"UNESCAPED_QUOTE"}
      [] stage = "fix_missing_commas"           -> {"MISSING_COMMA"}
      [] stage = "_auto_close_brackets"         -> {"MISSING_BRACKET"}
      [] stage = "_remove_trailing_commas"      -> {"TRAILING_COMMA"}
      [] stage = "remove_double_commas"         -> {"DOUBLE_COMMA"}
      [] OTHER                                  -> {}

\* the place in the pipeline of the stage that logs repairs of a kind
StageIndex(kind) == CHOOSE n \in DOMAIN SpecOrder : kind \in KindsOf(SpecOrder[n])

\* the 21 tags of the repair-kind taxonomy of the specification
SpecKinds == UNION {KindsOf(SpecOrder[n]) : n \in DOMAIN SpecOrder}

\* the strings, keys included, of a parsed value
RECURSIVE strings(_)
strings(value) ==
    CASE value[1] = "string" -> {value[2]}
      [] value[1] = "array"  -> UNION {strings(value[2][k]) : k \in DOMAIN value[2]}
      [] value[1] = "object" ->
             UNION {{value[2][k][1]} \cup strings(value[2][k][2]) : k \in DOMAIN value[2]}
      [] OTHER               -> {}

\* the printable ASCII characters that are no escape, quote or smart quote
PlainChars ==
    Lower \cup Upper \cup Digits \cup
    {" ", "!", "#", "$", "%", "&", "'", "(", ")", "*", "+", ",", "-", ".", "/", ":",
     ";", "<", "=", ">", "?", "@", "[", "]", "^", "_", "{", "|", "}", "~"}

\* the document that is left of the input when its comments are taken out
Uncommented == json_loads(_strip_comments(s, <<>>).text)

\* a finished call with the default arguments
DefaultCallDone ==
    pc = "done" /\ ~strict /\ options = Defaults /\ on_repair = "ignore"

\* C1: in strict mode, under every valid on_repair and whatever the feature
\* options are, the call returns what the strict parser returns on the input
\* (or raises its error), no normalizer runs, the parser runs once and the
\* caller's list is left as it was.
C1_StrictModeTransparent ==
    (pc = "done" /\ strict /\ on_repair \in {"ignore", "warn", "error"}) =>
        /\ outcome = ParserOutcome(s)
        /\ ran = <<>>
        /\ parser_calls = 1
        /\ repair_log = entry_log
        /\ local_repairs = <<>>
        /\ warnings = <<>>

\* a strict call on a text the pipeline would repair, with a feature switched
\* off and a list that holds an earlier repair, has raised the parser's error
C1_Witness ==
    /\ pc = "done" /\ strict /\ on_repair = "error"
    /\ s = <<"[", "1", ",", "]">>
    /\ options # Defaults
    /\ entry_log # <<>>
    /\ outcome = Raised("JSONDecodeError", <<>>)

\* C2: a call with the default arguments on a text that is valid JSON and has
\* no character of the smart-quote table returns the value the strict parser
\* returns on the text and appends no repair.
C2_ValidJsonRoundTrips ==
    ( /\ DefaultCallDone
      /\ json_loads(s).err = "none"
      /\ \A k \in DOMAIN s : s[k] \notin DOMAIN ALL_QUOTE_MAPPINGS ) =>
        /\ outcome = Returned(json_loads(s).value)
        /\ NewRepairs = <<>>

\* C3: under the default options every repair the call has appended has a
\* position between 0 and the length of the input, and a line and a column of
\* at least 1.
C3_RepairCoordinatesInRange ==
    (~strict /\ options = Defaults) =>
        \A k \in DOMAIN NewRepairs :
            /\ 0 <= NewRepairs[k].position
            /\ NewRepairs[k].position <= Len(s)
            /\ NewRepairs[k].line >= 1
            /\ NewRepairs[k].column >= 1

\* C4: when the input, its comments apart, is a JSON document whose strings
\* are plain printable ASCII, and the call returns a value without a repair of
\* one of the in-string transforms, every string of the document is a string
\* of the value, character for character.
C4_StringContentPreserved ==
    ( /\ DefaultCallDone
      /\ outcome.status = "returned"
      /\ Uncommented.err = "none"
      /\ \A lit \in strings(Uncommented.value) : \A k \in DOMAIN lit : lit[k] \in PlainChars
      /\ \A k \in DOMAIN NewRepairs :
            NewRepairs[k].kind \notin
                {"SMART_QUOTE", "UNESCAPED_NEWLINE", "CONTROL_CHARACTER",
                 "UNESCAPED_BACKSLASH", "UNESCAPED_QUOTE"} ) =>
        strings(Uncommented.value) \subseteq strings(outcome.value)

\* C5: the stages that have run are, in this order, the first enabled stages of
\* the specification's pipeline; the strict parser runs at most once, and when
\* it runs outside strict mode every enabled stage has run before it and
\* nothing runs after it.
C5_PipelineOrdering ==
    /\ IsPrefix(ran, EnabledStages)
    /\ parser_calls \in {0, 1}
    /\ pc = "parse" => (ran = EnabledStages /\ parser_calls = 0)
    /\ parser_calls = 1 => (pc = "done" /\ (strict \/ ran = EnabledStages))

\* a call with every feature enabled has run all twenty stages, some of which
\* repaired the text, and then the parser
C5_Witness ==
    /\ pc = "done" /\ ~strict /\ options = Defaults
    /\ ran = SpecOrder
    /\ parser_calls = 1
    /\ Len(NewRepairs) >= 2
    /\ outcome.status = "returned"

\* C6: each of the 21 tags of the taxonomy is a member of RepairKind, every
\* logged repair has one of them as its kind, and no call fails while it
\* creates a repair.
C6_RepairKindSetTotal ==
    /\ SpecKinds \subseteq RepairKind
    /\ \A k \in DOMAIN actual_log : actual_log[k].kind \in SpecKinds
    /\ outcome.exc # "AttributeError"

\* C7: a call with the default options that has ended has returned a value or
\* raised an error of the taxonomy: the parser's JSONDecodeError or a
\* ValueError (RelaxedJSONError is one).
C7_FuzzSafety ==
    DefaultCallDone =>
        \/ outcome.status = "returned"
        \/ outcome.exc \in {"JSONDecodeError", "ValueError", "RelaxedJSONError"}

\* C8: with on_repair = "error", once the pipeline has completed: if the list
\* of repairs is not empty the call raises a ValueError with the line, the
\* column and the message of the first repair of the list and the parser is
\* not called; if the list is empty the call ends with what the parser makes
\* of the processed text, which for a valid input is the value of the input.
C8_ErrorGate ==
    ( /\ pc = "done" /\ ~strict /\ on_repair = "error"
      /\ outcome.exc \notin {"AttributeError", "RelaxedJSONError"} ) =>
        IF actual_log # <<>>
        THEN /\ outcome = Raised("ValueError",
                      <<"Repair needed", actual_log[1].line, actual_log[1].column,
                        actual_log[1].message>>)
             /\ parser_calls = 0
        ELSE /\ outcome = ParserOutcome(processed)
             /\ parser_calls = 1
             /\ json_loads(s).err = "none" => outcome = Returned(json_loads(s).value)

\* a call with on_repair = "error" and an empty list has raised the error for
\* the first of the three repairs its pipeline made
C8_Witness ==
    /\ pc = "done" /\ ~strict /\ on_repair = "error" /\ entry_log = <<>>
    /\ Len(actual_log) = 3
    /\ actual_log[1].position # actual_log[2].position
    /\ outcome.exc = "ValueError"
    /\ parser_calls = 0

\* C9: at every point of a call the entries the caller's list held at entry
\* are its first entries, unchanged and in order; a list that was not supplied
\* is not touched; and no step changes another argument.
C9_LogAppendOnly ==
    /\ [](IsPrefix(entry_log, repair_log) /\ (~log_supplied => repair_log = entry_log))
    /\ [][UNCHANGED <<s, strict, options, on_repair, log_supplied>>]_vars

\* a call that was given a list with an earlier repair has appended two
\* repairs after it and has ended
C9_Witness ==
    /\ pc = "done" /\ log_supplied
    /\ entry_log # <<>>
    /\ Len(repair_log) >= Len(entry_log) + 2
    /\ IsPrefix(entry_log, repair_log)

\* C10: of two successive repairs a call has appended, the second is of a
\* later stage of the pipeline than the first, or of the same stage and at a
\* position that is not smaller.
C10_RepairLogOrdering ==
    \A k \in 1..(Len(NewRepairs) - 1) :
        LET a == NewRepairs[k]
            b == NewRepairs[k + 1]
        IN  \/ StageIndex(a.kind) < StageIndex(b.kind)
            \/ StageIndex(a.kind) = StageIndex(b.kind) /\ a.position <= b.position

\* a call has logged two repairs of one stage at different positions and then
\* a repair of a later stage
C10_Witness ==
    /\ Len(NewRepairs) = 3
    /\ NewRepairs[1].kind = NewRepairs[2].kind
    /\ NewRepairs[1].position < NewRepairs[2].position
    /\ StageIndex(NewRepairs[2].kind) < StageIndex(NewRepairs[3].kind)

\* C11: under the default options the position of every repair that removes
\* or replaces one character (a smart quote, a trailing comma, a doubled
\* comma) is an offset into the input, and the input has the repaired
\* character at that offset.
C11_PositionsReferToInput ==
    (~strict /\ options = Defaults) =>
        \A k \in DOMAIN NewRepairs :
            NewRepairs[k].kind \in {"SMART_QUOTE", "TRAILING_COMMA", "DOUBLE_COMMA"} =>
                /\ NewRepairs[k].position < Len(s)
                /\ <<At(s, NewRepairs[k].position)>> = NewRepairs[k].original

\* the stages whose transform, called alone on a text, repairs it: changes
\* it, logs a repair, or fails while it creates one
Defects(text) ==
    {stage \in Range(Tail(SpecOrder)) :
        LET r == Normalize(stage, text, <<>>)
        IN  r.err # "none" \/ r.text # text \/ r.log # <<>>}

dumps_chars(lit) ==
    LET esc(c) ==
            CASE c = "\""    -> <<"\\", "\"">>
              [] c = "\\"    -> <<"\\", "\\">>
              [] c = "\n"    -> <<"\\", "n">>
              [] c = "\r"    -> <<"\\", "r">>
              [] c = "\t"    -> <<"\\", "t">>
              [] c = "\f"    -> <<"\\", "f">>
              [] c = "U0008" -> <<"\\", "b">>
              [] c = "\\u"   -> <<"\\", "u">>
              [] c \in {EscapedChars[e] : e \in DOMAIN EscapedChars} \ {"U0060"} ->
                     <<"\\", "u">> \o (CHOOSE e \in DOMAIN EscapedChars : EscapedChars[e] = c)
              [] c = "U0060" -> <<"U0060">>
              [] OTHER       -> <<c>>
        RECURSIVE join(_)
        join(k) == IF k > Len(lit) THEN <<>> ELSE esc(lit[k]) \o join(k + 1)
    IN  <<"\"">> \o join(1) \o <<"\"">>

\* the text a strict serializer writes for a value (json.dumps(value))
RECURSIVE dumps(_)
dumps(value) ==
    LET items == value[2]
        RECURSIVE elements(_)
        elements(k) ==
            IF k > Len(items) THEN <<>>
            ELSE (IF k > 1 THEN <<",", " ">> ELSE <<>>) \o dumps(items[k]) \o elements(k + 1)
        RECURSIVE members(_)
        members(k) ==
            IF k > Len(items) THEN <<>>
            ELSE (IF k > 1 THEN <<",", " ">> ELSE <<>>) \o dumps_chars(items[k][1])
                 \o <<":", " ">> \o dumps(items[k][2]) \o members(k + 1)
    IN  CASE value[1] = "string"  -> dumps_chars(value[2])
          [] value[1] = "array"   -> <<"[">> \o elements(1) \o <<"]">>
          [] value[1] = "object"  -> <<"{">> \o members(1) \o <<"}">>
          [] value[1] = "int"     ->
                 str(value[2])
          [] value[1] = "float"   -> value[2]
          [] value[1] = "literal" ->
                 CASE value[2] = "null"  -> Null
                   [] value[2] = "true"  -> True
                   [] value[2] = "false" -> False
                   [] value[2] = "NaN"   -> <<"N", "a", "N">>
                   [] value[2] = "Infinity" -> Infinity
                   [] OTHER -> <<"-">> \o Infinity

\* C13: when a call with the default arguments returns a value, a second call
\* with the default arguments on the text a strict serializer writes for that
\* value returns with a list that holds no repair.
C13_IdempotenceAfterParse ==
    (DefaultCallDone /\ outcome.status = "returned") =>
        LET again == loads_relaxed(dumps(outcome.value), <<>>)
        IN  again.log = <<>>

\* ------------------------------------------------------------------------
\* An unclosed multi-line comment
\* ------------------------------------------------------------------------

\* the string state of the two-state scan of text before offset n: a quote
\* toggles it, and a backslash inside a string passes the next character
RECURSIVE ScanInString(_, _, _, _)
ScanInString(text, i, n, inside) ==
    IF i >= n THEN inside
    ELSE IF inside /\ At(text, i) = "\\" THEN ScanInString(text, i + 2, n, TRUE)
    ELSE IF At(text, i) = "\"" THEN ScanInString(text, i + 1, n, ~inside)
    ELSE ScanInString(text, i + 1, n, inside)

\* text holds a comment opener outside a string that no later closer follows
UnclosedOutsideString(text) ==
    \E i \in 0..(Len(text) - 2) :
        /\ StartsWithAt(text, i, <<"/", "*">>)
        /\ ~ScanInString(text, 0, i, FALSE)
        /\ find(text, <<"*", "/">>, i + 2) = -1

\* the same, for an opener that is also outside every earlier comment: the
\* text from offset i, read in string state inside, comes to such an opener
\* (a line comment runs through its newline; "//" right after ":" opens none)
RECURSIVE OpenComment(_, _, _)
OpenComment(text, i, inside) ==
    IF i >= Len(text) THEN FALSE
    ELSE IF inside
    THEN IF At(text, i) = "\\" THEN OpenComment(text, i + 2, TRUE)
         ELSE OpenComment(text, i + 1, At(text, i) # "\"")
    ELSE IF At(text, i) = "\"" THEN OpenComment(text, i + 1, TRUE)
    ELSE IF \/ At(text, i) = "#"
            \/ /\ StartsWithAt(text, i, <<"/", "/">>)
               /\ ~(i > 0 /\ At(text, i - 1) = ":")
    THEN LET nl == find(text, <<"\n">>, i)
         IN  IF nl = -1 THEN FALSE ELSE OpenComment(text, nl + 1, FALSE)
    ELSE IF StartsWithAt(text, i, <<"/", "*">>)
    THEN LET close == find(text, <<"*", "/">>, i + 2)
         IN  IF close = -1 THEN TRUE ELSE OpenComment(text, close + 2, FALSE)
    ELSE OpenComment(text, i + 1, FALSE)

\* the call ends in the comment strip with RelaxedJSONError: no later
\* transform, no dispatch and no strict parser
AbortsInCommentStrip ==
    /\ pc' = "done"
    /\ outcome' = Raised("RelaxedJSONError", <<>>)
    /\ ran' = Append(ran, "_strip_comments")
    /\ parser_calls' = 0
    /\ warnings' = <<>>

\* C14: when comment stripping is enabled and the text that reaches the
\* comment strip holds "/*" outside a string with no later "*/", the call
\* fails with RelaxedJSONError and no later transform, dispatch or parser runs.
C14_UnclosedCommentFails ==
    [][(/\ pc = "_strip_comments"
        /\ options["allow_comments"]
        /\ UnclosedOutsideString(processed)) => AbortsInCommentStrip]_vars

\* C14, for an opener outside strings and outside earlier comments: the call
\* fails with RelaxedJSONError in the comment strip, and only then.
C14_OpenCommentFails ==
    [][(pc = "_strip_comments" /\ options["allow_comments"])
        => (OpenComment(processed, 0, FALSE) <=> AbortsInCommentStrip)]_vars

\* a call that the comment strip has ended on an unclosed comment
C14_Witness ==
    /\ pc = "done"
    /\ outcome.exc = "RelaxedJSONError"
    /\ ran[Len(ran)] = "_strip_comments"
    /\ OpenComment(processed, 0, FALSE)
    /\ parser_calls = 0

\* ------------------------------------------------------------------------
\* parser.py: get_repairs
\* ------------------------------------------------------------------------

\* the exceptions that "except (json.JSONDecodeError, ValueError)" catches
IsValueError(exc) ==
    exc \in {"ValueError", "JSONDecodeError", "RelaxedJSONError", "UnicodeDecodeError"}

\* loads_relaxed(s, repair_log=repairs, on_repair="ignore") and the list it
\* filled; an exception that is not a ValueError leaves get_repairs
get_repairs(text) ==
    Let(loads_relaxed(text, <<>>),
        LAMBDA r : IF r.err = "none" \/ IsValueError(r.err)
                   THEN [err |-> "none", repairs |-> r.log]
                   ELSE [err |-> r.err, repairs |-> <<>>])

\* ------------------------------------------------------------------------
\* cli.py: process_file and main
\* ------------------------------------------------------------------------

\* the files a command line can name: what reading the path gives, the text
\* it holds, and what writing to it gives
FileSystem ==
    { [path |-> "missing.json", read |-> "FileNotFoundError", content |-> <<>>, write |-> "ok"],
      [path |-> "locked.json", read |-> "PermissionError", content |-> <<>>, write |-> "ok"],
      [path |-> "directory", read |-> "OSError", content |-> <<>>, write |-> "ok"],
      [path |-> "binary.json", read |-> "UnicodeDecodeError", content |-> <<>>, write |-> "ok"],
      [path |-> "plain.json", read |-> "ok", content |-> <<"[", "1", "]">>, write |-> "ok"],
      [path |-> "comma.json", read |-> "ok", content |-> <<"[", "1", ",", "]">>, write |-> "ok"],
      [path |-> "commas.json", read |-> "ok",
       content |-> <<"[", "1", ",", ",", "2", "]">>, write |-> "ok"],
      [path |-> "open.json", read |-> "ok", content |-> <<"[", "1", "/", "*">>, write |-> "ok"],
      [path |-> "readonly.json", read |-> "ok", content |-> <<"[", "1", "]">>,
       write |-> "PermissionError"],
      [path |-> "full.json", read |-> "ok", content |-> <<"[", "1", ",", "]">>,
       write |-> "OSError"] }

\* the values of --output: none, stdout, and two paths with what writing gives
Outputs ==
    [o \in {"None", "-", "out.json", "locked.out"} |->
        IF o = "locked.out" THEN "PermissionError" ELSE "ok"]

MaxFiles == 2

\* the command lines: one to MaxFiles files under every combination of flags
CommandLines ==
    [files : UNION {[1..n -> FileSystem] : n \in 1..MaxFiles},
     output : DOMAIN Outputs, verbose : BOOLEAN, backup : BOOLEAN, dry_run : BOOLEAN]

\* process_file returned False after writing the diagnostic
Failure(diagnostic) ==
    [returned |-> FALSE, raised |-> "none", err |-> <<diagnostic>>, out |-> <<>>]

\* an exception left process_file
Escaped(exc) ==
    [returned |-> FALSE, raised |-> exc, err |-> <<>>, out |-> <<>>]

\* "if verbose:", the lines that show the repairs
VerboseLines(verbose, repairs, display_name) ==
    IF ~verbose THEN <<>>
    ELSE IF repairs # <<>>
    THEN <<<<"Fixed issue(s) in", display_name, Len(repairs)>>>>
         \o [k \in 1..Len(repairs) |-> <<"  Line", repairs[k].line, repairs[k].message>>]
    ELSE <<<<"No changes needed in", display_name>>>>

\* write_output, called with dry_run false: what it writes, and the
\* exception dest.write_text raises
write_output(file, output_path, backup) ==
    IF output_path = "-" THEN [raised |-> "none", out |-> <<<<"stdout">>>>]
    ELSE LET dest == IF output_path # "None" THEN output_path ELSE file.path
             status == IF output_path # "None" THEN Outputs[output_path] ELSE file.write
             copy == IF backup /\ output_path = "None"
                     THEN <<<<"backup", dest>>>> ELSE <<>>
         IN  IF status = "ok" THEN [raised |-> "none", out |-> Append(copy, <<"write", dest>>)]
             ELSE [raised |-> status, out |-> copy]

process_file(file, output_path, verbose, backup, dry_run) ==
    IF file.read = "FileNotFoundError"
    THEN Failure(<<"Error: File not found", file.path>>)
    ELSE IF file.read = "PermissionError"
    THEN Failure(<<"Error: Permission denied", file.path>>)
    ELSE IF file.read = "OSError"
    THEN Failure(<<"Error reading", file.path>>)
    ELSE IF file.read # "ok"
    THEN Escaped(file.read)
    ELSE
      Let(get_repairs(file.content), LAMBDA repairs :
      IF repairs.err # "none" THEN Escaped(repairs.err)
      ELSE
      Let(loads_relaxed(file.content, <<>>), LAMBDA data :
      LET shown == VerboseLines(verbose, repairs.repairs, file.path)
          w == write_output(file, output_path, backup)
          dest == IF output_path # "None" THEN output_path ELSE file.path
      IN
      IF data.err # "none" THEN Failure(<<"Error parsing", file.path>>)
      ELSE IF dry_run
      THEN [returned |-> TRUE, raised |-> "none", out |-> <<>>,
            err |-> shown \o (IF repairs.repairs # <<>>
                              THEN <<<<"Would fix issue(s) in", file.path,
                                       Len(repairs.repairs)>>>>
                              ELSE <<>>)]
      ELSE IF w.raised = "PermissionError"
      THEN [returned |-> FALSE, raised |-> "none", out |-> w.out,
            err |-> Append(shown, <<"Error: Permission denied writing to", dest>>)]
      ELSE IF w.raised = "OSError"
      THEN [returned |-> FALSE, raised |-> "none", out |-> w.out,
            err |-> Append(shown, <<"Error writing to", dest>>)]
      ELSE [returned |-> TRUE, raised |-> "none", out |-> w.out, err |-> shown]))

\* loads_relaxed is not being called by a caller of its own
NoCall ==
    /\ s = <<>>
    /\ strict = FALSE
    /\ options = Defaults
    /\ on_repair = "ignore"
    /\ log_supplied = FALSE
    /\ repair_log = <<>>
    /\ entry_log = <<>>
    /\ local_repairs = <<>>
    /\ processed = <<>>
    /\ pc = "none"
    /\ outcome = [status |-> "none", exc |-> "none", value |-> <<>>, detail |-> <<>>]
    /\ ran = <<>>
    /\ parser_calls = 0
    /\ warnings = <<>>

MainInit ==
    /\ parsed \in CommandLines
    /\ file_index = 0
    /\ success = TRUE
    /\ err_stream = <<>>
    /\ written = <<>>
    /\ main_result = [status |-> "running", code |-> 0, exc |-> "none"]
    /\ main_pc = "validate"
    /\ NoCall
    /\ NoUnitCall

call_state == <<arguments, repair_log, local_repairs, processed, pc, outcome, ran,
          parser_calls, warnings>>

\* "if parsed.output and len(parsed.files) > 1: ... return 1", else success = True
CheckOutput ==
    /\ main_pc = "validate"
    /\ IF parsed.output # "None" /\ Len(parsed.files) > 1
       THEN /\ err_stream' = Append(err_stream,
                  <<"Error: --output can only be used with a single input file">>)
            /\ main_result' = [status |-> "returned", code |-> 1, exc |-> "none"]
            /\ main_pc' = "done"
            /\ UNCHANGED success
       ELSE /\ success' = TRUE
            /\ main_pc' = "loop"
            /\ UNCHANGED <<err_stream, main_result>>
    /\ UNCHANGED <<parsed, file_index, written, call_state, unit>>

\* one turn of "for file_path in parsed.files: if not process_file(...): success = False"
ProcessFile ==
    /\ main_pc = "loop"
    /\ file_index < Len(parsed.files)
    /\ LET r == process_file(parsed.files[file_index + 1], parsed.output,
                             parsed.verbose, parsed.backup, parsed.dry_run)
       IN  /\ err_stream' = err_stream \o r.err
           /\ written' = written \o r.out
           /\ IF r.raised # "none"
              THEN /\ main_result' = [status |-> "raised", code |-> 0, exc |-> r.raised]
                   /\ main_pc' = "done"
                   /\ UNCHANGED <<file_index, success>>
              ELSE /\ file_index' = file_index + 1
                   /\ success' = (success /\ r.returned)
                   /\ UNCHANGED <<main_result, main_pc>>
    /\ UNCHANGED <<parsed, call_state, unit>>

\* "return 0 if success else 1"
Return ==
    /\ main_pc = "loop"
    /\ file_index = Len(parsed.files)
    /\ main_result' = [status |-> "returned", code |-> IF success THEN 0 ELSE 1,
                       exc |-> "none"]
    /\ main_pc' = "done"
    /\ UNCHANGED <<parsed, file_index, success, err_stream, written, call_state, unit>>

MainNext == CheckOutput \/ ProcessFile \/ Return

MainSpec == MainInit /\ [][MainNext]_vars

\* ------------------------------------------------------------------------
\* Properties of a run of cli.main
\* ------------------------------------------------------------------------

\* the file can be read, repaired, parsed and written under the command line
Processable(file) ==
    /\ file.read = "ok"
    /\ loads_relaxed(file.content, <<>>).err \in {"none"}
    /\ \/ parsed.dry_run
       \/ parsed.output = "-"
       \/ (IF parsed.output # "None" THEN Outputs[parsed.output] ELSE file.write) = "ok"

\* the error stream holds a diagnostic that names the path
Diagnosed(path) ==
    \E k \in 1..Len(err_stream) :
        /\ Len(err_stream[k]) >= 2
        /\ err_stream[k][2] = path
        /\ err_stream[k][1] \in {"Error: File not found", "Error: Permission denied",
                                 "Error reading", "Error parsing",
                                 "Error: Permission denied writing to", "Error writing to"}

\* --output is given with one file only
ValidUsage == parsed.output = "None" \/ Len(parsed.files) = 1

\* C15: on a valid command line main attempts every file in the order
\* given; each file's error is reported on the error stream and the next
\* file is processed; main returns 0 exactly when every file was processed
\* successfully, else 1.
C15_ExitCodeAndContinuation ==
    (main_pc = "done" /\ ValidUsage) =>
        /\ main_result.status = "returned"
        /\ file_index = Len(parsed.files)
        /\ main_result.code = (IF \A k \in 1..Len(parsed.files) : Processable(parsed.files[k])
                               THEN 0 ELSE 1)
        /\ \A k \in 1..Len(parsed.files) :
               ~Processable(parsed.files[k]) =>
                   Diagnosed(IF parsed.files[k].read = "ok" /\ parsed.output # "None"
                                 /\ loads_relaxed(parsed.files[k].content, <<>>).err = "none"
                             THEN parsed.output ELSE parsed.files[k].path)

\* ------------------------------------------------------------------------
\* A transform called on its own, with a text and an empty list
\* ------------------------------------------------------------------------

MaxChars == 5

\* the texts of at most n characters of the alphabet
Strings(alphabet, n) == UNION {[1..k -> alphabet] : k \in 0..n}

\* the texts extract_json_from_text is called on
ExtractTexts == Strings({"x", " ", "[", "]", "\"", "#"}, MaxChars)

\* the texts remove_markdown_fences is called on: leading whitespace, an
\* opening fence, content and a closing fence, each present or not
FenceTexts ==
    {a \o b \o c \o d :
        a \in {<<>>, <<" ">>},
        b \in {<<>>, Fence, Fence \o <<"j","s","o","n">>, Fence \o <<"j","s","o","n","c">>,
               Fence \o <<"J","S">>, Fence \o <<" ","j","s","o","n"," ">>,
               Fence \o <<"p","y">>},
        c \in {<<>>, <<"\n">>, <<"[","1","]">>, <<"\n","[","1","]">>,
               <<"\n","[","1","]","\n">>, <<"\n"," ","[","1","]"," ","\n">>},
        d \in {<<>>, Fence, Fence \o <<"\n">>, Fence \o <<" ">>, <<"x">>}}

\* the texts convert_single_quote_strings is called on
QuoteTexts == Strings({"'", "\"", "\\", "a"}, MaxChars)

\* the texts made of at most n of the pieces
RECURSIVE Joined(_, _)
Joined(pieces, n) ==
    IF n = 0 THEN {<<>>}
    ELSE LET shorter == Joined(pieces, n - 1)
         IN  shorter \cup {t \o p : t \in shorter, p \in pieces}

\* the texts fix_unescaped_backslash is called on: an opening quote and at
\* most MaxChars pieces, and outside a string at most two
BackslashTexts ==
    LET pieces == { <<"\"">>, <<"\\">>, <<"n">>, <<"q">>, <<"C", ":">>,
                    <<"u", "0", "0", "4", "1">>, <<"u", "0", "0">> }
    IN  {<<"\"">> \o t : t \in Joined(pieces, MaxChars)} \cup Joined(pieces, 2)

\* the texts _strip_comments is called on
CommentTexts == Strings({"/", "*", "#", "\"", "\n", ":", "\\"}, MaxChars)

\* the texts fix_missing_colons is called on: an opening and at most four
\* of the pieces
ColonTexts ==
    {a \o b :
        a \in { <<"{">>, <<"[">>, <<"[", "{">>, <<"{", "\"", "a", "\"", ":", "1">>,
                <<"{", "\"", "a", "\"", ":", "[", "1", "]">>,
                <<"{", "\"", "a", "\"", ":", "\"", "x", "\"">> },
        b \in Joined({ <<"\"", "b", "\"">>, <<" ">>, <<"1">>, <<":">>, <<",">>, <<"}">> }, 4)}

\* the texts fix_missing_commas is called on: a beginning and at most four
\* of the pieces
CommaTexts ==
    {a \o b :
        a \in { <<>>, <<"[">>, <<"{">>, <<"[", "1">>, <<"{", "\"", "a", "\"", ":", "1">> },
        b \in Joined({ <<"[">>, <<"]">>, <<"\"", "a", "\"">>, <<"1">>, <<" ">>, <<",">>,
                       <<"t", "r", "u", "e">>, <<"-">> }, 4)}

\* the texts fix_unescaped_quotes is called on: an opening quote and at
\* most five of the pieces
UnescapedTexts ==
    {<<"\"">> \o b :
        b \in Joined({ <<"\"">>, <<",">>, <<"a", "b", "c", "d">>, <<"a", "b">>, <<":">>,
                       <<"]">>, <<"1">>, <<"\\">>, <<" ">> }, 5)}

\* the texts _auto_close_brackets is called on
AutoCloseTexts == Strings({"[", "{", "]", "}", "\"", "\\"}, MaxChars)

\* the texts _remove_trailing_commas is called on
TrailingTexts == Strings({",", " ", "]", "}", "\"", "\\"}, MaxChars)

UnitCalls ==
    [normalizer : {"extract_json_from_text"}, text : ExtractTexts, log : {<<>>}]
    \cup [normalizer : {"remove_markdown_fences"}, text : FenceTexts, log : {<<>>}]
    \cup [normalizer : {"convert_single_quote_strings"}, text : QuoteTexts, log : {<<>>}]
    \cup [normalizer : {"fix_unescaped_backslash"}, text : BackslashTexts, log : {<<>>}]
    \cup [normalizer : {"_strip_comments"}, text : CommentTexts, log : {<<>>}]
    \cup [normalizer : {"fix_missing_colons"}, text : ColonTexts, log : {<<>>}]
    \cup [normalizer : {"fix_missing_commas"}, text : CommaTexts, log : {<<>>}]
    \cup [normalizer : {"fix_unescaped_quotes"}, text : UnescapedTexts, log : {<<>>}]
    \cup [normalizer : {"_auto_close_brackets"}, text : AutoCloseTexts, log : {<<>>}]
    \cup [normalizer : {"_remove_trailing_commas"}, text : TrailingTexts, log : {<<>>}]

UnitInit ==
    /\ unit_call \in UnitCalls
    /\ unit_result = [status |-> "pending", err |-> "none", text |-> <<>>, log |-> <<>>]
    /\ NoCall
    /\ NoMain

\* unit_call.normalizer(unit_call.text, unit_call.log) returns or raises
Called(normalizer, r) ==
    /\ unit_call.normalizer = normalizer
    /\ unit_result.status = "pending"
    /\ unit_result' = [status |-> "done", err |-> r.err, text |-> r.text, log |-> r.log]
    /\ UNCHANGED <<unit_call, call_state, cli>>

CallExtractJson ==
    Called("extract_json_from_text", extract_json_from_text(unit_call.text, unit_call.log))

CallRemoveMarkdownFences ==
    Called("remove_markdown_fences", remove_markdown_fences(unit_call.text, unit_call.log))

CallConvertSingleQuoteStrings ==
    Called("convert_single_quote_strings",
           convert_single_quote_strings(unit_call.text, unit_call.log))

CallFixUnescapedBackslash ==
    Called("fix_unescaped_backslash", fix_unescaped_backslash(unit_call.text, unit_call.log))

CallStripComments ==
    Called("_strip_comments", _strip_comments(unit_call.text, unit_call.log))

CallFixMissingColons ==
    Called("fix_missing_colons", fix_missing_colons(unit_call.text, unit_call.log))

CallFixMissingCommas ==
    Called("fix_missing_commas", fix_missing_commas(unit_call.text, unit_call.log))

CallFixUnescapedQuotes ==
    Called("fix_unescaped_quotes", fix_unescaped_quotes(unit_call.text, unit_call.log))

CallAutoCloseBrackets ==
    Called("_auto_close_brackets", _auto_close_brackets(unit_call.text, unit_call.log))

CallRemoveTrailingCommas ==
    Called("_remove_trailing_commas", _remove_trailing_commas(unit_call.text, unit_call.log))

UnitNext ==
    \/ CallExtractJson
    \/ CallRemoveMarkdownFences
    \/ CallConvertSingleQuoteStrings
    \/ CallFixUnescapedBackslash
    \/ CallStripComments
    \/ CallFixMissingColons
    \/ CallFixMissingCommas
    \/ CallFixUnescapedQuotes
    \/ CallAutoCloseBrackets
    \/ CallRemoveTrailingCommas

UnitSpec == UnitInit /\ [][UnitNext]_vars

\* the transform has been called on its own and has returned or raised
UnitDone(normalizer) ==
    unit_call.normalizer = normalizer /\ unit_result.status = "done"

\* ------------------------------------------------------------------------
\* Properties of extract_json_from_text
\* ------------------------------------------------------------------------

\* t begins with a comment marker
StartsComment(t) ==
    \/ startswith(t, <<"/", "/">>)
    \/ startswith(t, <<"#">>)
    \/ startswith(t, <<"/", "*">>)

\* the offsets of the brackets of t that lie outside string literals
OpeningBrackets(t) ==
    {i \in 0..(Len(t) - 1) : At(t, i) \in {"{", "["} /\ ~ScanInString(t, 0, i, FALSE)}

\* the offset just after the first bracket closing that brings the nesting
\* depth, counted outside strings from offset i, back to zero; -1 if none
RECURSIVE RegionEnd(_, _, _, _, _, _)
RegionEnd(t, i, depth, inside, opening, closing) ==
    IF i >= Len(t) THEN -1
    ELSE IF inside /\ At(t, i) = "\\" THEN RegionEnd(t, i + 2, depth, TRUE, opening, closing)
    ELSE IF At(t, i) = "\"" THEN RegionEnd(t, i + 1, depth, ~inside, opening, closing)
    ELSE IF inside THEN RegionEnd(t, i + 1, depth, TRUE, opening, closing)
    ELSE IF At(t, i) = opening THEN RegionEnd(t, i + 1, depth + 1, FALSE, opening, closing)
    ELSE IF At(t, i) = closing
    THEN IF depth = 1 THEN i + 1
         ELSE RegionEnd(t, i + 1, depth - 1, FALSE, opening, closing)
    ELSE RegionEnd(t, i + 1, depth, FALSE, opening, closing)

\* what the extraction of the stripped text t is to give: the region from
\* the first bracket outside a string to its closing bracket, with a
\* postamble that is a comment kept, and whether anything was dropped
Extraction(t) ==
    LET start == CHOOSE i \in OpeningBrackets(t) : \A j \in OpeningBrackets(t) : i <= j
        end == RegionEnd(t, start, 0, FALSE, At(t, start),
                         IF At(t, start) = "{" THEN "}" ELSE "]")
        postamble == IF end = -1 THEN <<>> ELSE strip(From(t, end))
        kept == end = -1 \/ StartsComment(postamble)
    IN  [region |-> IF kept THEN From(t, start) ELSE Slice(t, start, end),
         dropped |-> start > 0 \/ (~kept /\ postamble # <<>>)]

\* C16: for a text that does not start with a comment marker and holds a
\* bracket outside a string, extract_json_from_text returns the region from
\* that bracket to the first closing bracket at depth zero, brackets inside
\* strings never counting; it logs exactly one json_extracted repair when a
\* preamble or a non-comment postamble was dropped, and none when the
\* postamble is a comment, which stays in the region.
C16_JsonExtraction ==
    (/\ UnitDone("extract_json_from_text")
     /\ ~StartsComment(strip(unit_call.text))
     /\ OpeningBrackets(strip(unit_call.text)) # {})
    => LET e == Extraction(strip(unit_call.text))
       IN  /\ unit_result.err = "none"
           /\ unit_result.text = e.region
           /\ IF e.dropped
              THEN Len(unit_result.log) = 1 /\ unit_result.log[1].kind = "JSON_EXTRACTED"
              ELSE unit_result.log = <<>>

\* ------------------------------------------------------------------------
\* Properties of remove_markdown_fences
\* ------------------------------------------------------------------------

\* the language tags a fence may carry, and no tag
AcceptedTags ==
    { <<>>, <<"j","s","o","n">>, <<"j","s","o","n","c">>,
      <<"j","a","v","a","s","c","r","i","p","t">>, <<"j","s">> }

\* the offset after the opening fence line of t (leading whitespace, the
\* fence, an accepted tag in any letter case, blanks, a newline), or -1
OpeningFenceEnd(t) ==
    LET a == SkipSet(t, 0, PySpace)
        ends == {e \in 1..Len(t) :
                    \E tag \in AcceptedTags :
                        /\ StartsWithAt(t, a, Fence)
                        /\ StartsWithAtNoCase(t, a + 3, tag)
                        /\ e > a + 3 + Len(tag)
                        /\ \A k \in (a + 3 + Len(tag))..(e - 2) : At(t, k) \in {" ", "\t"}
                        /\ At(t, e - 1) = "\n"}
    IN  IF ends = {} THEN -1 ELSE CHOOSE e \in ends : \A m \in ends : e <= m

\* the offset of the first line of t from offset from on whose trimmed
\* content is the fence, or -1
ClosingFenceLine(t, from) ==
    LET lines == {c \in from..(Len(t) - 1) :
                     /\ c = from \/ At(t, c - 1) = "\n"
                     /\ strip(Slice(t, c, LET nl == find(t, <<"\n">>, c)
                                          IN  IF nl = -1 THEN Len(t) ELSE nl)) = Fence}
    IN  IF lines = {} THEN -1 ELSE CHOOSE c \in lines : \A m \in lines : c <= m

\* the trimmed content between the opening fence line and the closing fence
FencedContent(t) ==
    LET from == OpeningFenceEnd(t)
        close == ClosingFenceLine(t, from)
    IN  strip(IF close = -1 THEN From(t, from) ELSE Slice(t, from, close))

\* C17: for a text that begins, after leading whitespace, with a fence and an
\* optional tag json, jsonc, javascript or js in any case, remove_markdown_fences
\* returns the trimmed content between the opening fence line and the closing
\* fence (everything after the opening when none closes) and logs exactly one
\* markdown_fence_removed repair at position 0; a text that does not begin
\* with a fence is returned unchanged and nothing is logged.
C17_MarkdownFenceStrip ==
    UnitDone("remove_markdown_fences") =>
        /\ OpeningFenceEnd(unit_call.text) # -1 =>
              /\ unit_result.err = "none"
              /\ unit_result.text = FencedContent(unit_call.text)
              /\ Len(unit_result.log) = 1
              /\ unit_result.log[1].kind = "MARKDOWN_FENCE_REMOVED"
              /\ unit_result.log[1].position = 0
        /\ ~StartsWithAt(unit_call.text, SkipSet(unit_call.text, 0, PySpace), Fence) =>
              /\ unit_result.err = "none"
              /\ unit_result.text = unit_call.text
              /\ unit_result.log = <<>>

\* ------------------------------------------------------------------------
\* Properties of convert_single_quote_strings
\* ------------------------------------------------------------------------

\* the offset of the first "'" from offset j on that no backslash escapes,
\* or -1
RECURSIVE ClosingQuote(_, _)
ClosingQuote(t, j) ==
    IF j >= Len(t) THEN -1
    ELSE IF At(t, j) = "\\" THEN ClosingQuote(t, j + 2)
    ELSE IF At(t, j) = "'" THEN j
    ELSE ClosingQuote(t, j + 1)

\* the content t[j:end] of a single-quoted region as the content of a
\* double-quoted literal: \' becomes ', an unescaped " becomes \", and every
\* other escape \X stays \X
RECURSIVE Requoted(_, _, _)
Requoted(t, j, end) ==
    IF j >= end THEN <<>>
    ELSE IF At(t, j) = "\\"
    THEN (IF At(t, j + 1) = "'" THEN <<"'">> ELSE <<"\\", At(t, j + 1)>>)
         \o Requoted(t, j + 2, end)
    ELSE IF At(t, j) = "\"" THEN <<"\\", "\"">> \o Requoted(t, j + 1, end)
    ELSE <<At(t, j)>> \o Requoted(t, j + 1, end)

\* t from offset i on with every single-quoted region that opens outside a
\* double-quoted string rewritten; inside tells whether offset i lies in a
\* double-quoted string, and a backslash passes the character after it
RECURSIVE DoubleQuoted(_, _, _)
DoubleQuoted(t, i, inside) ==
    IF i >= Len(t) THEN <<>>
    ELSE IF At(t, i) = "\\" THEN Slice(t, i, i + 2) \o DoubleQuoted(t, i + 2, inside)
    ELSE IF At(t, i) = "\"" THEN <<"\"">> \o DoubleQuoted(t, i + 1, ~inside)
    ELSE IF At(t, i) = "'" /\ ~inside /\ ClosingQuote(t, i + 1) # -1
    THEN <<"\"">> \o Requoted(t, i + 1, ClosingQuote(t, i + 1)) \o <<"\"">>
         \o DoubleQuoted(t, ClosingQuote(t, i + 1) + 1, FALSE)
    ELSE <<At(t, i)>> \o DoubleQuoted(t, i + 1, inside)

\* C18: convert_single_quote_strings rewrites every '...' region that opens
\* outside a double-quoted string into a double-quoted literal with the same
\* content (\' becomes ', every unescaped " becomes \" whatever precedes it,
\* other escapes are kept), leaves an opening ' without a closing one
\* untouched, and changes nothing inside double-quoted strings.
C18_SingleQuoteStrings ==
    UnitDone("convert_single_quote_strings") =>
        /\ unit_result.err = "none"
        /\ unit_result.text = DoubleQuoted(unit_call.text, 0, FALSE)

\* ------------------------------------------------------------------------
\* Properties of fix_unescaped_backslash
\* ------------------------------------------------------------------------

\* the backslash at offset i, in the string literal whose content begins at
\* offset start, is to stay as it is: it is followed by a quote or a
\* backslash, by u and four hex digits, or by one of b f n r t / in a literal
\* that does not begin with a letter and a colon
KeepsBackslash(t, i, start) ==
    /\ i + 1 < Len(t)
    /\ \/ At(t, i + 1) \in {"\"", "\\"}
       \/ /\ At(t, i + 1) = "u"
          /\ i + 5 < Len(t)
          /\ \A k \in 2..5 : At(t, i + k) \in HexDigits
       \/ /\ At(t, i + 1) \in {"b", "f", "n", "r", "t", "/"}
          /\ ~(start + 1 < Len(t) /\ isalpha(At(t, start)) /\ At(t, start + 1) = ":")

\* t from offset i on with every backslash inside a string kept or doubled,
\* and the offsets of the doubled ones
RECURSIVE BackslashFix(_, _, _, _)
BackslashFix(t, i, inside, start) ==
    IF i >= Len(t) THEN [text |-> <<>>, doubled |-> <<>>]
    ELSE IF At(t, i) = "\""
    THEN LET r == BackslashFix(t, i + 1, ~inside, i + 1)
         IN  [text |-> <<"\"">> \o r.text, doubled |-> r.doubled]
    ELSE IF inside /\ At(t, i) = "\\" /\ KeepsBackslash(t, i, start)
    THEN LET r == BackslashFix(t, i + 2, TRUE, start)
         IN  [text |-> Slice(t, i, i + 2) \o r.text, doubled |-> r.doubled]
    ELSE IF inside /\ At(t, i) = "\\"
    THEN LET r == BackslashFix(t, i + 1, TRUE, start)
         IN  [text |-> <<"\\", "\\">> \o r.text, doubled |-> <<i>> \o r.doubled]
    ELSE LET r == BackslashFix(t, i + 1, inside, start)
         IN  [text |-> <<At(t, i)>> \o r.text, doubled |-> r.doubled]

\* C19: inside a string fix_unescaped_backslash leaves a backslash intact
\* before a quote, a backslash, or u and four hex digits; before one of
\* b f n r t / it doubles it exactly when the string literal that holds it
\* begins with a letter and a colon; in every other case, a backslash at the
\* end of the input included, it doubles it and logs unescaped_backslash.
C19_UnescapedBackslash ==
    UnitDone("fix_unescaped_backslash") =>
        LET e == BackslashFix(unit_call.text, 0, FALSE, 0)
        IN  /\ unit_result.err = "none"
            /\ unit_result.text = e.text
            /\ Len(unit_result.log) = Len(e.doubled)
            /\ \A k \in 1..Len(unit_result.log) :
                   unit_result.log[k].kind = "UNESCAPED_BACKSLASH"

\* ------------------------------------------------------------------------
\* Properties of _strip_comments
\* ------------------------------------------------------------------------

\* t from offset i on without its comments, the kind and offset of each
\* comment, and whether every block comment is closed; inside tells whether
\* offset i lies in a string. A comment begins at a marker outside strings
\* and outside earlier comments: a line comment runs through its newline, a
\* block comment through its closer and leaves one space.
RECURSIVE Uncomment(_, _, _)
Uncomment(t, i, inside) ==
    IF i >= Len(t) THEN [text |-> <<>>, comments |-> <<>>, closed |-> TRUE]
    ELSE IF inside /\ At(t, i) = "\\"
    THEN LET r == Uncomment(t, i + 2, TRUE)
         IN  [r EXCEPT !.text = Slice(t, i, i + 2) \o r.text]
    ELSE IF inside \/ At(t, i) = "\""
    THEN LET r == Uncomment(t, i + 1, (At(t, i) = "\"") # inside)
         IN  [r EXCEPT !.text = <<At(t, i)>> \o r.text]
    ELSE IF At(t, i) = "#" \/ StartsWithAt(t, i, <<"/", "/">>)
    THEN LET nl == find(t, <<"\n">>, i)
             r == Uncomment(t, IF nl = -1 THEN Len(t) ELSE nl + 1, FALSE)
             kind == IF At(t, i) = "#" THEN "HASH_COMMENT" ELSE "SINGLE_LINE_COMMENT"
         IN  [r EXCEPT !.comments = <<<<kind, i>>>> \o r.comments]
    ELSE IF StartsWithAt(t, i, <<"/", "*">>)
    THEN LET close == find(t, <<"*", "/">>, i + 2)
             r == Uncomment(t, close + 2, FALSE)
         IN  IF close = -1 THEN [text |-> <<>>, comments |-> <<>>, closed |-> FALSE]
             ELSE [r EXCEPT !.text = <<" ">> \o r.text,
                            !.comments = <<<<"MULTI_LINE_COMMENT", i>>>> \o r.comments]
    ELSE LET r == Uncomment(t, i + 1, FALSE)
         IN  [r EXCEPT !.text = <<At(t, i)>> \o r.text]

\* C20: _strip_comments removes every "//" and every "#" outside a string
\* with the rest of its line and every "/* ... */" outside a string, and logs
\* one repair of the matching kind per comment at the comment's offset; the
\* markers inside string literals stay and produce no repair.
C20_CommentStrip ==
    LET e == Uncomment(unit_call.text, 0, FALSE)
    IN  (UnitDone("_strip_comments") /\ e.closed) =>
            /\ unit_result.err = "none"
            /\ unit_result.text = e.text
            /\ Len(unit_result.log) = Len(e.comments)
            /\ \A k \in 1..Len(unit_result.log) :
                   /\ unit_result.log[k].kind = e.comments[k][1]
                   /\ unit_result.log[k].position = e.comments[k][2]

\* ------------------------------------------------------------------------
\* The strings of a text, as the two-state scan delimits them
\* ------------------------------------------------------------------------

\* the class of every character of t from offset i on: "out" outside a
\* string, "open" and "close" for the quotes that enter and leave one, "in"
\* inside (the character after a backslash inside a string included)
RECURSIVE Classes(_, _, _)
Classes(t, i, inside) ==
    IF i >= Len(t) THEN <<>>
    ELSE IF inside /\ At(t, i) = "\\"
    THEN (IF i + 1 < Len(t) THEN <<"in", "in">> ELSE <<"in">>) \o Classes(t, i + 2, TRUE)
    ELSE IF At(t, i) = "\""
    THEN <<IF inside THEN "close" ELSE "open">> \o Classes(t, i + 1, ~inside)
    ELSE <<IF inside THEN "in" ELSE "out">> \o Classes(t, i + 1, inside)

\* the offsets of t of the class
OffsetsOf(t, class) ==
    LET c == Classes(t, 0, FALSE) IN {i \in 0..(Len(t) - 1) : c[i + 1] = class}

\* the offset of the last character before offset i that is not whitespace,
\* and of the first one from offset i on; -1 if there is none
PrevToken(t, i) ==
    LET ks == {k \in 0..(i - 1) : At(t, k) \notin WS}
    IN  IF ks = {} THEN -1 ELSE CHOOSE k \in ks : \A m \in ks : k >= m

NextToken(t, i) ==
    LET ks == {k \in i..(Len(t) - 1) : At(t, k) \notin WS}
    IN  IF ks = {} THEN -1 ELSE CHOOSE k \in ks : \A m \in ks : k <= m

\* the offset of the quote that opened the string closed at offset q
OpeningOf(t, q) ==
    LET ps == {p \in OffsetsOf(t, "open") : p < q}
    IN  CHOOSE p \in ps : \A m \in ps : p >= m

\* the brackets open at offset n, outermost first, counted outside strings
RECURSIVE Enclosing(_, _, _, _)
Enclosing(t, i, n, stack) ==
    IF i >= n THEN stack
    ELSE IF Classes(t, 0, FALSE)[i + 1] # "out" THEN Enclosing(t, i + 1, n, stack)
    ELSE IF At(t, i) \in {"{", "["} THEN Enclosing(t, i + 1, n, Append(stack, At(t, i)))
    ELSE IF At(t, i) \in {"}", "]"} /\ stack # <<>>
    THEN Enclosing(t, i + 1, n, SubSeq(stack, 1, Len(stack) - 1))
    ELSE Enclosing(t, i + 1, n, stack)

\* a keyword true, false or null begins at offset j, or ends at offset k
KeywordAt(t, j) ==
    \E w \in {<<"t","r","u","e">>, <<"f","a","l","s","e">>, <<"n","u","l","l">>} :
        StartsWithAt(t, j, w)

KeywordEndsAt(t, k) ==
    \E w \in {<<"t","r","u","e">>, <<"f","a","l","s","e">>, <<"n","u","l","l">>} :
        k + 1 >= Len(w) /\ StartsWithAt(t, k + 1 - Len(w), w)

\* ------------------------------------------------------------------------
\* Properties of fix_missing_colons
\* ------------------------------------------------------------------------

\* a value-start token begins at offset j
ValueStartsAt(t, j) ==
    j # -1 /\ (At(t, j) \in {"\"", "{", "[", "-"} \cup Digits \/ KeywordAt(t, j))

\* the closing quotes of t that are to get a colon: those of a string
\* followed by a value start that is a key (after "{" or ","), or that in
\* object context follows a prior value
MissingColons(t) ==
    {q \in OffsetsOf(t, "close") :
        LET p == OpeningOf(t, q)
            k == PrevToken(t, p)
            stack == Enclosing(t, 0, p, <<>>)
        IN  /\ ValueStartsAt(t, NextToken(t, q + 1))
            /\ k # -1
            /\ \/ At(t, k) \in {"{", ","}
               \/ /\ stack # <<>>
                  /\ stack[Len(stack)] = "{"
                  /\ At(t, k) \in {"}", "]"} \cup Digits \/ KeywordEndsAt(t, k)}

\* the closing quotes of t that a colon follows
FollowedByColon(t) ==
    {q \in OffsetsOf(t, "close") :
        NextToken(t, q + 1) # -1 /\ At(t, NextToken(t, q + 1)) = ":"}

\* t from offset i on with the character c inserted after each offset of S
RECURSIVE InsertedAfter(_, _, _, _)
InsertedAfter(t, i, S, c) ==
    IF i >= Len(t) THEN <<>>
    ELSE (IF i \in S THEN <<At(t, i), c>> ELSE <<At(t, i)>>) \o InsertedAfter(t, i + 1, S, c)

\* C21: fix_missing_colons inserts ":" after every string that a value start
\* follows and that is a key (its opening quote comes after "{" or ",") or
\* that, in object context, follows a prior value; it changes no string that
\* a colon follows, inserts nothing but colons after closing quotes, and
\* logs one missing_colon repair per inserted colon.
C21_MissingColonInsert ==
    UnitDone("fix_missing_colons") =>
        /\ unit_result.err = "none"
        /\ \E S \in SUBSET OffsetsOf(unit_call.text, "close") :
               /\ MissingColons(unit_call.text) \subseteq S
               /\ S \cap FollowedByColon(unit_call.text) = {}
               /\ unit_result.text = InsertedAfter(unit_call.text, 0, S, ":")
               /\ Len(unit_result.log) = Cardinality(S)
               /\ \A k \in 1..Len(unit_result.log) :
                      unit_result.log[k].kind = "MISSING_COLON"

\* ------------------------------------------------------------------------
\* Properties of fix_missing_commas
\* ------------------------------------------------------------------------

\* the offset after the number that begins at offset i: a sign, then digits
\* and the characters . e E + -
NumberEnd(t, i) ==
    SkipSet(t, IF At(t, i) = "-" THEN i + 1 ELSE i, Digits \cup {".", "e", "E", "+", "-"})

\* the length of the keyword true, false or null at offset i, or 0
KeywordLen(t, i) ==
    IF StartsWithAt(t, i, <<"t","r","u","e">>) \/ StartsWithAt(t, i, <<"n","u","l","l">>) THEN 4
    ELSE IF StartsWithAt(t, i, <<"f","a","l","s","e">>) THEN 5
    ELSE 0

\* t from offset i on with ", " put before every value that begins while
\* saw (a value was just seen) holds and depth (the height of the bracket
\* stack) is not 0, and the number of commas put
RECURSIVE WithCommas(_, _, _, _, _)
WithCommas(t, i, inside, saw, depth) ==
    IF i >= Len(t) THEN [text |-> <<>>, commas |-> 0]
    ELSE
      LET c == At(t, i)
          comma == IF saw /\ depth > 0 THEN <<",", " ">> ELSE <<>>
          put(prefix, r, n) == [text |-> prefix \o r.text, commas |-> r.commas + n]
      IN
      IF inside /\ c = "\\"
      THEN put(Slice(t, i, i + 2), WithCommas(t, i + 2, TRUE, saw, depth), 0)
      ELSE IF inside
      THEN put(<<c>>, WithCommas(t, i + 1, c # "\"", c = "\"", depth), 0)
      ELSE IF c = "\""
      THEN put(comma \o <<c>>, WithCommas(t, i + 1, TRUE, FALSE, depth), Len(comma) \div 2)
      ELSE IF c \in {"{", "["}
      THEN put(comma \o <<c>>, WithCommas(t, i + 1, FALSE, FALSE, depth + 1),
               Len(comma) \div 2)
      ELSE IF c \in {"}", "]"}
      THEN put(<<c>>, WithCommas(t, i + 1, FALSE, TRUE, Max(depth - 1, 0)), 0)
      ELSE IF c \in {",", ":"}
      THEN put(<<c>>, WithCommas(t, i + 1, FALSE, FALSE, depth), 0)
      ELSE IF c \in Digits \cup {"-"}
      THEN put(comma \o Slice(t, i, NumberEnd(t, i)),
               WithCommas(t, NumberEnd(t, i), FALSE, TRUE, depth), Len(comma) \div 2)
      ELSE IF c \notin WS /\ KeywordLen(t, i) > 0
      THEN put(comma \o Slice(t, i, i + KeywordLen(t, i)),
               WithCommas(t, i + KeywordLen(t, i), FALSE, TRUE, depth), Len(comma) \div 2)
      ELSE put(<<c>>, WithCommas(t, i + 1, FALSE, saw, depth), 0)

\* C22: fix_missing_commas puts a comma before the start of a value exactly
\* when a value was just seen and the bracket stack is not empty (a value is
\* seen after a closed string, a number, true/false/null, "}" or "]", and
\* not after ",", ":", an opening bracket or an opening quote); it puts
\* nothing at top level or inside strings, logs one missing_comma repair per
\* comma, and alters no character of its input.
C22_MissingCommaInsert ==
    UnitDone("fix_missing_commas") =>
        LET e == WithCommas(unit_call.text, 0, FALSE, FALSE, 0)
        IN  /\ unit_result.err = "none"
            /\ unit_result.text = e.text
            /\ Len(unit_result.log) = e.commas
            /\ \A k \in 1..Len(unit_result.log) :
                   unit_result.log[k].kind = "MISSING_COMMA"

\* ------------------------------------------------------------------------
\* Properties of fix_unescaped_quotes
\* ------------------------------------------------------------------------

\* what follows a comma, from offset k on, starts a well-formed
\* continuation: a string followed by ":", a number, "{", "[", true, false
\* or null
Continuation(t, k) ==
    LET close == FindSet(t, k + 1, {"\"", "\\"})
        colon == SkipSet(t, close + 1, WS)
    IN  /\ k < Len(t)
        /\ IF At(t, k) = "\""
           THEN /\ close < Len(t) /\ At(t, close) = "\""
                /\ colon < Len(t) /\ At(t, colon) = ":"
           ELSE \/ At(t, k) \in Digits \cup {"-", "{", "["}
                \/ KeywordLen(t, k) > 0

\* the number of letters from offset k up to the next quote
LettersBeforeQuote(t, k) ==
    Cardinality({n \in k..(FindSet(t, k, {"\""}) - 1) : isalpha(At(t, n))})

\* the quote at offset i, met inside a string, closes the string; out is
\* the output so far, which the cases the heuristic leaves to the
\* surroundings of the quote look back into
Closes(t, i, out) ==
    LET j == SkipSet(t, i + 1, WS)
        k == SkipSet(t, j + 1, WS)
    IN  IF j >= Len(t) \/ At(t, j) \in {"]", "}", ":"} THEN TRUE
        ELSE IF At(t, j) = ","
        THEN Continuation(t, k) \/ LettersBeforeQuote(t, k) <= 3
        ELSE is_closing_quote(t, i, out)

\* t from offset i on after out, with every quote that is met inside a
\* string and does not close it escaped, and the number of quotes escaped
RECURSIVE QuotesEscaped(_, _, _, _, _)
QuotesEscaped(t, i, inside, out, n) ==
    IF i >= Len(t) THEN [text |-> out, escaped |-> n]
    ELSE
      LET c == At(t, i) IN
      IF inside /\ c = "\\"
      THEN QuotesEscaped(t, i + 2, TRUE, out \o Slice(t, i, i + 2), n)
      ELSE IF c # "\""
      THEN QuotesEscaped(t, i + 1, inside, Append(out, c), n)
      ELSE IF ~inside
      THEN QuotesEscaped(t, i + 1, TRUE, Append(out, c), n)
      ELSE IF Closes(t, i, out)
      THEN QuotesEscaped(t, i + 1, FALSE, Append(out, c), n)
      ELSE QuotesEscaped(t, i + 1, TRUE, out \o <<"\\", "\"">>, n + 1)

\* C23: fix_unescaped_quotes takes a quote met inside a string as the
\* closing quote when the next character that is not whitespace is "]", "}"
\* or ":" or the input ends; before "," it is the closing quote if a
\* well-formed continuation follows the comma, and otherwise it is escaped,
\* with one unescaped_quote repair, exactly when more than 3 letters lie
\* between the comma and the next quote; a quote after an escaping backslash
\* is never touched.
C23_UnescapedQuoteHeuristic ==
    UnitDone("fix_unescaped_quotes") =>
        LET e == QuotesEscaped(unit_call.text, 0, FALSE, <<>>, 0)
        IN  /\ unit_result.err = "none"
            /\ unit_result.text = e.text
            /\ Len(unit_result.log) = e.escaped
            /\ \A k \in 1..Len(unit_result.log) :
                   unit_result.log[k].kind = "UNESCAPED_QUOTE"

\* ------------------------------------------------------------------------
\* Properties of _auto_close_brackets
\* ------------------------------------------------------------------------

\* the openers of t from offset i on that no closer of their kind has
\* matched, after those of stack, outermost first; brackets inside strings
\* are not counted, and a closer that does not match the innermost open
\* bracket matches nothing
RECURSIVE Unmatched(_, _, _)
Unmatched(t, i, stack) ==
    IF i >= Len(t) THEN stack
    ELSE IF i \notin OffsetsOf(t, "out") THEN Unmatched(t, i + 1, stack)
    ELSE IF At(t, i) \in {"{", "["} THEN Unmatched(t, i + 1, Append(stack, At(t, i)))
    ELSE IF /\ stack # <<>>
            /\ <<stack[Len(stack)], At(t, i)>> \in {<<"{", "}">>, <<"[", "]">>}
    THEN Unmatched(t, i + 1, SubSeq(stack, 1, Len(stack) - 1))
    ELSE Unmatched(t, i + 1, stack)

\* the closers of the openers, innermost first
Closers(stack) ==
    [k \in 1..Len(stack) |-> IF stack[Len(stack) + 1 - k] = "{" THEN "}" ELSE "]"]

\* C24: the output of _auto_close_brackets is its input followed by the
\* closers of the openers still unmatched at the end of the input, innermost
\* first, brackets inside strings not being counted; it logs exactly one
\* missing_bracket repair per appended character, all at position
\* len(input), and returns an input with no unmatched opener unchanged with
\* no repair.
C24_AutoCloseAppendOnly ==
    UnitDone("_auto_close_brackets") =>
        LET closers == Closers(Unmatched(unit_call.text, 0, <<>>))
        IN  /\ unit_result.err = "none"
            /\ unit_result.text = unit_call.text \o closers
            /\ Len(unit_result.log) = Len(closers)
            /\ \A k \in 1..Len(closers) :
                   /\ unit_result.log[k].kind = "MISSING_BRACKET"
                   /\ unit_result.log[k].position = Len(unit_call.text)
                   /\ unit_result.log[k].original = <<>>
                   /\ unit_result.log[k].replacement = <<closers[k]>>
            /\ closers = <<>> =>
                   unit_result.text = unit_call.text /\ unit_result.log = <<>>

\* two openers are closed innermost first, and the bracket inside the
\* string is not
C24_Witness ==
    /\ UnitDone("_auto_close_brackets")
    /\ unit_call.text = <<"[", "{", "\"", "[", "\"">>
    /\ unit_result.text = <<"[", "{", "\"", "[", "\"", "}", "]">>
    /\ Len(unit_result.log) = 2

\* ------------------------------------------------------------------------
\* Properties of _remove_trailing_commas
\* ------------------------------------------------------------------------

\* the offsets of the trailing commas of t: the commas outside strings
\* whose next character that is not whitespace is "]" or "}"
TrailingCommas(t) ==
    {i \in OffsetsOf(t, "out") :
        /\ At(t, i) = ","
        /\ NextToken(t, i + 1) # -1
        /\ At(t, NextToken(t, i + 1)) \in {"]", "}"}}

\* t from offset i on without the characters at the offsets of S
RECURSIVE Without(_, _, _)
Without(t, i, S) ==
    IF i >= Len(t) THEN <<>>
    ELSE (IF i \in S THEN <<>> ELSE <<At(t, i)>>) \o Without(t, i + 1, S)

\* the offsets of S in ascending order
RECURSIVE Ascending(_)
Ascending(S) ==
    IF S = {} THEN <<>>
    ELSE LET least == CHOOSE i \in S : \A m \in S : i <= m
         IN  <<least>> \o Ascending(S \ {least})

\* C25: _remove_trailing_commas deletes exactly the commas outside strings
\* whose next character that is not whitespace is "]" or "}", logs one
\* trailing_comma repair per deleted comma at the offset of that comma in
\* its input, and changes no other character; a comma followed by another
\* element is kept.
C25_TrailingCommaStrip ==
    UnitDone("_remove_trailing_commas") =>
        LET deleted == Ascending(TrailingCommas(unit_call.text))
        IN  /\ unit_result.err = "none"
            /\ unit_result.text = Without(unit_call.text, 0, TrailingCommas(unit_call.text))
            /\ Len(unit_result.log) = Len(deleted)
            /\ \A k \in 1..Len(deleted) :
                   /\ unit_result.log[k].kind = "TRAILING_COMMA"
                   /\ unit_result.log[k].position = deleted[k]
                   /\ unit_result.log[k].original = <<",">>

\* the comma inside the string is kept, the comma before "]" is deleted
C25_Witness ==
    /\ UnitDone("_remove_trailing_commas")
    /\ unit_call.text = <<"\"", ",", "\"", ",", "]">>
    /\ unit_result.text = <<"\"", ",", "\"", "]">>
    /\ Len(unit_result.log) = 1
    /\ unit_result.log[1].position = 3

\* ------------------------------------------------------------------------
\* Properties of loads_relaxed: separators
\* ------------------------------------------------------------------------

\* the offsets of the commas of t outside strings whose previous character
\* that is not whitespace is ",", "{" or "["
RepeatedCommas(t) ==
    {i \in OffsetsOf(t, "out") :
        /\ At(t, i) = ","
        /\ PrevToken(t, i) # -1
        /\ At(t, PrevToken(t, i)) \in {",", "{", "["}}

\* C28: with allow_trailing_commas and remove_double_commas both enabled,
\* the text that loads_relaxed hands to the strict parser contains, outside
\* string literals, no comma whose next character that is not whitespace is
\* "]" or "}" and no comma whose previous character that is not whitespace
\* is ",", "{" or "[".
C28_NoRemovableCommaParsed ==
    ( /\ pc = "parse"
      /\ options["allow_trailing_commas"]
      /\ options["remove_double_commas"] ) =>
        /\ TrailingCommas(processed) = {}
        /\ RepeatedCommas(processed) = {}

\* ------------------------------------------------------------------------
\* Properties of loads_relaxed: arrays of strings
\* ------------------------------------------------------------------------

\* the elements of an array of strings read from offset i of t on, after
\* those of acc: adjacent elements are separated by a comma (commas counts
\* them) or only by whitespace (gaps counts them); ok is false if t is no
\* such array
RECURSIVE Elements(_, _, _, _, _)
Elements(t, i, acc, commas, gaps) ==
    LET open    == SkipSet(t, i, WS)
        close   == FindSet(t, open + 1, {"\"", "\\"})
        found   == Append(acc, Slice(t, open + 1, close))
        k       == SkipSet(t, close + 1, WS)
        no      == [ok |-> FALSE, strings |-> <<>>, commas |-> 0, gaps |-> 0]
    IN  IF ~(open < Len(t) /\ At(t, open) = "\"" /\ close < Len(t) /\ At(t, close) = "\"")
        THEN no
        ELSE IF k >= Len(t) THEN no
        ELSE IF At(t, k) = "]"
        THEN IF k = Len(t) - 1
             THEN [ok |-> TRUE, strings |-> found, commas |-> commas, gaps |-> gaps]
             ELSE no
        ELSE IF At(t, k) = "," THEN Elements(t, k + 1, found, commas + 1, gaps)
        ELSE IF At(t, k) = "\"" /\ k > close + 1
        THEN Elements(t, k, found, commas, gaps + 1)
        ELSE no

\* C26: for every array of string elements in which some adjacent elements
\* are separated by "," and others only by whitespace, loads_relaxed with
\* default options returns the list of those strings in order.
C26_MissingCommaArrays ==
    ( /\ pc = "done" /\ ~strict /\ options = Defaults /\ on_repair = "ignore"
      /\ Len(s) > 0 /\ At(s, 0) = "["
      /\ Elements(s, 1, <<>>, 0, 0).ok
      /\ Elements(s, 1, <<>>, 0, 0).commas > 0
      /\ Elements(s, 1, <<>>, 0, 0).gaps > 0 ) =>
        LET elements == Elements(s, 1, <<>>, 0, 0).strings
        IN  outcome = Returned(<<"array", [k \in 1..Len(elements) |-> <<"string", elements[k]>>]>>)

\* ------------------------------------------------------------------------
\* Properties of loads_relaxed: comments
\* ------------------------------------------------------------------------

\* the characters of t from offset a up to offset b are a comment: "//" or
\* "#" up to the end of its line, or "/*" up to the first "*/"
IsComment(t, a, b) ==
    LET line(from) == /\ \A k \in from..(b - 1) : At(t, k) # "\n"
                      /\ b = Len(t) \/ At(t, b) = "\n"
    IN  \/ At(t, a) = "#" /\ line(a + 1)
        \/ b >= a + 2 /\ StartsWithAt(t, a, <<"/", "/">>) /\ line(a + 2)
        \/ /\ b >= a + 4
           /\ StartsWithAt(t, a, <<"/", "*">>)
           /\ find(t, <<"*", "/">>, a + 2) = b - 2

\* offset a of the strict JSON text j lies between two of its tokens: it is
\* not inside a string, and neither inside a number nor inside a keyword
BetweenTokens(j, a) ==
    /\ 0 < a /\ a < Len(j)
    /\ Classes(j, 0, FALSE)[a] \in {"out", "close"}
    /\ Classes(j, 0, FALSE)[a + 1] \in {"out", "open"}
    /\ ~(At(j, a - 1) \in NumberChars \cup Lower /\ At(j, a) \in NumberChars \cup Lower)
    /\ NextToken(j, a) # -1
    /\ PrevToken(j, a) # -1

\* the strict JSON texts that t is with one comment placed between two of
\* their tokens
Uncommentings(t) ==
    LET without(q) == Slice(t, 0, q[1]) \o From(t, q[2])
    IN  {without(q) :
            q \in {r \in (0..(Len(t) - 1)) \X (1..Len(t)) :
                      /\ r[1] < r[2]
                      /\ IsComment(t, r[1], r[2])
                      /\ json_loads(without(r)).err = "none"
                      /\ BetweenTokens(without(r), r[1])}}

\* C27: for every strict JSON text J and every comment placed between two
\* tokens of J, loads_relaxed with default options returns the value of J,
\* whatever characters the comment contains.
C27_CommentContentInert ==
    ( pc = "done" /\ ~strict /\ options = Defaults /\ on_repair = "ignore" ) =>
        \A j \in Uncommentings(s) : outcome = Returned(json_loads(j).value)

\* ------------------------------------------------------------------------
\* Properties of loads_relaxed: the on_repair dispatch and the caller's list
\* ------------------------------------------------------------------------

\* C29: the on_repair dispatch considers only the repairs of the current
\* call: when the list passed already holds repairs of an earlier call and
\* the input needs no repair, on_repair "error" returns the parsed value and
\* on_repair "warn" emits no warning; when the input needs repairs, the
\* error reports, and the warnings cover, only the repairs of this call.
C29_DispatchCurrentCallOnly ==
    ( /\ pc = "done" /\ ~strict /\ on_repair \in {"warn", "error"}
      /\ log_supplied /\ entry_log # <<>> ) =>
        /\ (json_loads(s).err = "none" /\ Defects(s) = {}) =>
               /\ outcome = Returned(json_loads(s).value)
               /\ warnings = <<>>
        /\ (NewRepairs # <<>> /\ (parser_calls = 1 \/ outcome.exc = "ValueError")) =>
               /\ on_repair = "error" =>
                      outcome = Raised("ValueError", RepairNeeded(NewRepairs[1]))
               /\ on_repair = "warn" => warnings = RepairWarnings(NewRepairs)

\* ------------------------------------------------------------------------
\* Properties of the string-aware scans
\* ------------------------------------------------------------------------

\* what a scan acts on: the characters that make it change the text, and the
\* class of the two-state scan in which they do
ScanTargets ==
    [n \in {"convert_single_quote_strings", "fix_unescaped_backslash",
            "_strip_comments", "_auto_close_brackets", "_remove_trailing_commas"} |->
        CASE n = "convert_single_quote_strings" -> [chars |-> {"'"}, class |-> "out"]
          [] n = "fix_unescaped_backslash"      -> [chars |-> {"\\"}, class |-> "in"]
          [] n = "_strip_comments"              -> [chars |-> {"/", "#"}, class |-> "out"]
          [] n = "_auto_close_brackets"         -> [chars |-> {"[", "{"}, class |-> "out"]
          [] n = "_remove_trailing_commas"      -> [chars |-> {","}, class |-> "out"]]

\* the scan has nothing to act on in t: none of its characters is in its
\* class
NothingToActOn(n, t) ==
    \A i \in 0..(Len(t) - 1) :
        At(t, i) \in ScanTargets[n].chars => Classes(t, 0, FALSE)[i + 1] # ScanTargets[n].class

\* C30: every scan that tracks strings classifies each character as inside
\* or outside a string as the two-state scan does (outside a string a quote
\* enters, inside a string a backslash makes the next character literal and
\* a quote exits, and a backslash outside a string escapes nothing): a scan
\* leaves a text unchanged, and logs nothing, when the two-state scan puts
\* none of the characters it acts on in the class it acts in.
C30_ScansAgreeOnStrings ==
    \A n \in DOMAIN ScanTargets :
        (UnitDone(n) /\ NothingToActOn(n, unit_call.text)) =>
            /\ unit_result.err = "none"
            /\ unit_result.text = unit_call.text
            /\ unit_result.log = unit_call.log

====
